---------------------------- MODULE Spec2Model ----------------------------
(***************************************************************************)
(* A model of rdf-terms (lib/QuadTermUtil.ts): the pattern matcher         *)
(* matchPatternMappings, the path lookup getValueNestedPath, the nested    *)
(* traversals and the conversions between a quad and its terms, over       *)
(* RDF/JS terms and (nested) quads.                                        *)
(*                                                                         *)
(* The functions of the library are pure.  Each becomes an operator that   *)
(* is computed the way the code computes it; the specification draws the   *)
(* arguments of one call in Init and has one action per exported function, *)
(* which applies it and stores what the call returned.                     *)
(***************************************************************************)
EXTENDS Integers, Sequences, FiniteSets, TLC

(***************************************************************************)
(* Bounds of the model.                                                    *)
(***************************************************************************)
\* number of distinct IRIs (values of NamedNode terms)
NumIris == 2
\* number of distinct variable names in the general family of quads
NumVars == 2
\* nesting depth of the quoted quads inside the quads handed to the matcher
MaxDepth == 1
\* length of the paths handed to getValueNestedPath, and nesting depth of the
\* terms handed to it
MaxPath == 3
\* nesting depth of the quads handed to the traversals
MaxNest == 2

\* The longest array of terms handed to uniqTerms.
MaxTerms == 3

\* The longest sequence of calls of matchPatternMappings.
MaxCalls == 3

(***************************************************************************)
(* The term model.  The library works on RDF/JS terms built by a data      *)
(* factory: every term has a termType and a value; a Quad has the four     *)
(* named positions in addition.                                            *)
(***************************************************************************)
QUAD_TERM_NAMES == <<"subject", "predicate", "object", "graph">>

TERM_TYPES == {"NamedNode", "BlankNode", "Literal", "Variable", "DefaultGraph", "Quad"}

namedNode(v) == [termType |-> "NamedNode", value |-> v]

blankNode(v) == [termType |-> "BlankNode", value |-> v]

literal(v) == [termType |-> "Literal", value |-> v]

variable(v) == [termType |-> "Variable", value |-> v]

defaultGraph == [termType |-> "DefaultGraph", value |-> ""]

quad(s, p, o, g) ==
    [termType |-> "Quad", value |-> "",
     subject |-> s, predicate |-> p, object |-> o, graph |-> g]

\* term.equals(other): same termType and same value, position by position
\* for quads.
RECURSIVE equals(_, _)
equals(term, other) ==
    /\ other.termType = term.termType
    /\ IF term.termType = "Quad"
       THEN /\ equals(term.subject, other.subject)
            /\ equals(term.predicate, other.predicate)
            /\ equals(term.object, other.object)
            /\ equals(term.graph, other.graph)
       ELSE other.value = term.value

(***************************************************************************)
(* matchPatternMappings.                                                   *)
(***************************************************************************)
\* opt.<name> read as a condition: an absent option is undefined, which is
\* falsy.
Truthy(opt, name) == name \in DOMAIN opt /\ opt[name]

\* const map: Record<string, RDF.Term> = {}
\* A map is a function from the names bound so far to their terms.  The
\* names of the model are no names of members of Object.prototype
\* ("constructor", "toString", ...), for which map[name] of a fresh {} is
\* not undefined.
EmptyMap == <<>>

(* Faulty variants of matchVariable, which the properties below must tell  *)
(* from it.                                                                *)
\* the binding is written without looking at an earlier one
matchVariable_overwrite(t1, t2, map, opt) ==
    IF Truthy(opt, "skipVarMapping") /\ t2.termType = "Variable"
    THEN [ok |-> TRUE, map |-> map]
    ELSE [ok |-> TRUE, map |-> (t1.value :> t2) @@ map]

\* the bound term is compared by value only
matchVariable_valueOnly(t1, t2, map, opt) ==
    IF Truthy(opt, "skipVarMapping") /\ t2.termType = "Variable"
    THEN [ok |-> TRUE, map |-> map]
    ELSE IF t1.value \in DOMAIN map
         THEN [ok |-> map[t1.value].value = t2.value, map |-> map]
         ELSE [ok |-> TRUE, map |-> (t1.value :> t2) @@ map]

\* skipVarMapping skips every candidate term, not only the variables
matchVariable_skipAll(t1, t2, map, opt) ==
    IF Truthy(opt, "skipVarMapping")
    THEN [ok |-> TRUE, map |-> map]
    ELSE IF t1.value \in DOMAIN map
         THEN [ok |-> equals(map[t1.value], t2), map |-> map]
         ELSE [ok |-> TRUE, map |-> (t1.value :> t2) @@ map]

\* a variable of the candidate is refused unless skipVarMapping is set
matchVariable_noCandidateVariables(t1, t2, map, opt) ==
    IF t2.termType = "Variable"
    THEN [ok |-> Truthy(opt, "skipVarMapping"), map |-> map]
    ELSE IF t1.value \in DOMAIN map
         THEN [ok |-> equals(map[t1.value], t2), map |-> map]
         ELSE [ok |-> TRUE, map |-> (t1.value :> t2) @@ map]

\* skipVarMapping still records the variable of the candidate
matchVariable_skipBinds(t1, t2, map, opt) ==
    IF t1.value \in DOMAIN map
    THEN [ok |-> \/ Truthy(opt, "skipVarMapping") /\ t2.termType = "Variable"
                 \/ equals(map[t1.value], t2),
          map |-> map]
    ELSE [ok |-> TRUE, map |-> (t1.value :> t2) @@ map]

\* a variable is bound to terms that are no Quad only
matchVariable_noQuad(t1, t2, map, opt) ==
    IF Truthy(opt, "skipVarMapping") /\ t2.termType = "Variable"
    THEN [ok |-> TRUE, map |-> map]
    ELSE IF t2.termType = "Quad"
         THEN [ok |-> FALSE, map |-> map]
         ELSE IF t1.value \in DOMAIN map
              THEN [ok |-> equals(map[t1.value], t2), map |-> map]
              ELSE [ok |-> TRUE, map |-> (t1.value :> t2) @@ map]

\* with skipVarMapping a Variable of the candidate is refused
matchVariable_skipRefuses(t1, t2, map, opt) ==
    IF Truthy(opt, "skipVarMapping") /\ t2.termType = "Variable"
    THEN [ok |-> FALSE, map |-> map]
    ELSE IF t1.value \in DOMAIN map
         THEN [ok |-> equals(map[t1.value], t2), map |-> map]
         ELSE [ok |-> TRUE, map |-> (t1.value :> t2) @@ map]

\* the variable is bound to itself, not to the term it faces
matchVariable_bindsVariable(t1, t2, map, opt) ==
    IF Truthy(opt, "skipVarMapping") /\ t2.termType = "Variable"
    THEN [ok |-> TRUE, map |-> map]
    ELSE IF t1.value \in DOMAIN map
         THEN [ok |-> TRUE, map |-> map]
         ELSE [ok |-> TRUE, map |-> (t1.value :> t1) @@ map]

\* case 'Variable' of the callback of match:
\*   (opt.skipVarMapping && t2.termType === 'Variable')
\*     || (map[t1.value]?.equals(t2) ?? (map[t1.value] = t2, true))
\* The result carries the map as the callback leaves it.
matchVariable(t1, t2, map, opt) ==
    IF Truthy(opt, "skipVarMapping") /\ t2.termType = "Variable"
    THEN [ok |-> TRUE, map |-> map]
    ELSE IF t1.value \in DOMAIN map
         THEN [ok |-> equals(map[t1.value], t2), map |-> map]
         ELSE [ok |-> TRUE, map |-> (t1.value :> t2) @@ map]

\* A faulty variant of matchDefault: the values are compared, the term types
\* are not.
matchDefault_valueOnly(t1, t2, map) == [ok |-> t1.value = t2.value, map |-> map]

\* default case of the callback of match: t1.equals(t2)
matchDefault(t1, t2, map) == [ok |-> equals(t1, t2), map |-> map]

RECURSIVE match(_, _, _, _)
RECURSIVE everyTermsFrom(_, _, _, _, _)

\* A faulty variant of checker: a quoted quad is matched under a map of its
\* own, which the enclosing call does not see.
checker_ownMap(t1, t2, map, opt) ==
    CASE t1.termType = "Variable" -> matchVariable(t1, t2, map, opt)
      [] t1.termType = "Quad" ->
            [ok |-> t2.termType = "Quad" /\ match(t1, t2, EmptyMap, opt).ok,
             map |-> map]
      [] OTHER -> matchDefault(t1, t2, map)

\* The callback (t1, key) => { const t2 = _quad[key]; switch (t1.termType) ... }
checker(t1, t2, map, opt) ==
    CASE t1.termType = "Variable" -> matchVariable(t1, t2, map, opt)
      [] t1.termType = "Quad" ->
            IF t2.termType = "Quad"
            THEN match(t1, t2, map, opt)
            ELSE [ok |-> FALSE, map |-> map]
      [] OTHER -> matchDefault(t1, t2, map)

\* everyTerms(_pattern, checker): the checker is called for subject,
\* predicate, object and graph in this order, joined by &&, so that the
\* first position that fails ends the evaluation.
everyTermsFrom(_pattern, _quad, i, map, opt) ==
    IF i > Len(QUAD_TERM_NAMES)
    THEN [ok |-> TRUE, map |-> map]
    ELSE LET key == QUAD_TERM_NAMES[i]
             r == checker(_pattern[key], _quad[key], map, opt)
         IN  IF r.ok
             THEN everyTermsFrom(_pattern, _quad, i + 1, r.map, opt)
             ELSE [ok |-> FALSE, map |-> r.map]

\* function match(_pattern, _quad): boolean, with the map it shares with
\* the enclosing call threaded through.
match(_pattern, _quad, map, opt) == everyTermsFrom(_pattern, _quad, 1, map, opt)

\* What a call returns: false, true or the map.
ReturnBoolean(b) == [type |-> "boolean", bool |-> b, map |-> EmptyMap]

ReturnObject(m) == [type |-> "object", bool |-> TRUE, map |-> m]

\* A faulty variant of matchPatternMappingsReturn:
\*   return opt.returnMappings ? map : match(pattern, quad);
matchPatternMappingsReturn_mapFirst(m, opt) ==
    IF Truthy(opt, "returnMappings") THEN ReturnObject(m.map)
    ELSE ReturnBoolean(m.ok)

\* return match(pattern, quad) && (opt.returnMappings ? map : true);
matchPatternMappingsReturn(m, opt) ==
    IF ~m.ok THEN ReturnBoolean(FALSE)
    ELSE IF Truthy(opt, "returnMappings") THEN ReturnObject(m.map)
    ELSE ReturnBoolean(TRUE)

matchPatternMappings(quad_, pattern_, opt) ==
    matchPatternMappingsReturn(match(pattern_, quad_, EmptyMap, opt), opt)

\* A faulty variant of NewMap: one map, made once, serves all calls.
NewMap_shared(heap_) == 1

\* const map: Record<string, RDF.Term> = {}, a statement of the function
\* body: every call makes an object of its own.  heap_ holds the maps made
\* so far; the new one is the next in it.
NewMap(heap_) == Len(heap_) + 1

\* the content of map id: a map that was just made is empty
MapAt(heap_, id) == IF id \in DOMAIN heap_ THEN heap_[id] ELSE EmptyMap

\* heap_ after the call that holds map id has written m to it
Store(heap_, id, m) ==
    IF id \in DOMAIN heap_ THEN [heap_ EXCEPT ![id] = m] ELSE Append(heap_, m)

(***************************************************************************)
(* getValueNestedPath.                                                     *)
(***************************************************************************)
ReturnTerm(t) == [type |-> "term", term |-> t]

\* throw new Error(`Tried to get ${keys[0]} from term of type ${term.termType}`)
ThrowError(key, termType) == [type |-> "error", key |-> key, termType |-> termType]

\* keys.slice(1)
Slice1(keys) == SubSeq(keys, 2, Len(keys))

RECURSIVE getValueNestedPath(_, _)

\* A faulty variant of getValueNestedPath: the term type is looked at before
\* the length of the path.
getValueNestedPath_typeFirst(term, keys) ==
    IF term.termType # "Quad"
    THEN ThrowError(IF Len(keys) = 0 THEN "undefined" ELSE keys[1], term.termType)
    ELSE IF Len(keys) = 0 THEN ReturnTerm(term)
         ELSE getValueNestedPath(term[keys[1]], Slice1(keys))

\* A faulty variant of getValueNestedPath: the keys are followed from the
\* last one to the first.
RECURSIVE getValueNestedPath_fromLast(_, _)
getValueNestedPath_fromLast(term, keys) ==
    IF Len(keys) = 0 THEN ReturnTerm(term)
    ELSE IF term.termType = "Quad"
         THEN getValueNestedPath_fromLast(term[keys[Len(keys)]],
                                          SubSeq(keys, 1, Len(keys) - 1))
         ELSE ThrowError(keys[1], term.termType)

\* A faulty variant of getValueNestedPath: the error names the last element
\* of the path that is left.
getValueNestedPath_lastKey(term, keys) ==
    IF Len(keys) = 0 THEN ReturnTerm(term)
    ELSE IF term.termType = "Quad"
         THEN getValueNestedPath(term[keys[1]], Slice1(keys))
         ELSE ThrowError(keys[Len(keys)], term.termType)

getValueNestedPath(term, keys) ==
    IF Len(keys) = 0 THEN ReturnTerm(term)
    ELSE IF term.termType = "Quad"
         THEN getValueNestedPath(term[keys[1]], Slice1(keys))
         ELSE ThrowError(keys[1], term.termType)

(***************************************************************************)
(* The callbacks handed to the traversals.  A callback is named; Call*     *)
(* gives what the callback of that name returns.                           *)
(***************************************************************************)
\* (value, keys) => boolean, for the filter and checker parameters
Filters == {"false", "true", "isNamedNode", "lastKeyIsGraph", "isNested"}

CallFilter(filter, value, keys) ==
    CASE filter = "false" -> FALSE
      [] filter = "true" -> TRUE
      [] filter = "isNamedNode" -> value.termType = "NamedNode"
      [] filter = "lastKeyIsGraph" -> keys[Len(keys)] = "graph"
      [] filter = "isNested" -> Len(keys) > 1

\* (term, keys) => term, for the mapper parameter.  The third one is
\*   key[key.length - 1] === 'subject' || ... === 'object'
\*     ? DF.variable(key.join('-')) : term
\* whose joined keys are kept as the sequence they are made of.
Mappers == {"identity", "fixedVariable", "variableForSubjectAndObject"}

CallMapper(mapper, term, keys) ==
    CASE mapper = "identity" -> term
      [] mapper = "fixedVariable" -> [termType |-> "Variable", value |-> "v"]
      [] mapper = "variableForSubjectAndObject" ->
            IF keys[Len(keys)] \in {"subject", "object"}
            THEN [termType |-> "Variable", value |-> "joined", joined |-> keys]
            ELSE term

\* one invocation of a callback
Call(value, keys) == [value |-> value, keys |-> keys]

\* (previousValue, currentValue, keys) => U, for the reducer parameter: the
\* invocation is put behind, or in front of, what was reduced so far
Reducers == {"append", "prepend"}

CallReducer(reducer, previousValue, currentValue, keys) ==
    CASE reducer = "append" -> Append(previousValue, Call(currentValue, keys))
      [] reducer = "prepend" -> <<Call(currentValue, keys)>> \o previousValue

(***************************************************************************)
(* forEachTermsNested.  The value is the sequence of the invocations of    *)
(* cb, in the order they are made.                                         *)
(***************************************************************************)
RECURSIVE forEachTermsNested(_, _)

\* A faulty variant of forEachTermsNested: the quoted quad in the object
\* position is visited with the keys of the enclosing quad.
forEachTermsNested_keysLost(quad_, keys) ==
    (IF quad_.subject.termType = "Quad"
     THEN forEachTermsNested(quad_.subject, Append(keys, "subject"))
     ELSE <<Call(quad_.subject, Append(keys, "subject"))>>)
    \o
    (IF quad_.predicate.termType = "Quad"
     THEN forEachTermsNested(quad_.predicate, Append(keys, "predicate"))
     ELSE <<Call(quad_.predicate, Append(keys, "predicate"))>>)
    \o
    (IF quad_.object.termType = "Quad"
     THEN forEachTermsNested(quad_.object, keys)
     ELSE <<Call(quad_.object, Append(keys, "object"))>>)
    \o
    (IF quad_.graph.termType = "Quad"
     THEN forEachTermsNested(quad_.graph, Append(keys, "graph"))
     ELSE <<Call(quad_.graph, Append(keys, "graph"))>>)

forEachTermsNested(quad_, keys) ==
    (IF quad_.subject.termType = "Quad"
     THEN forEachTermsNested(quad_.subject, Append(keys, "subject"))
     ELSE <<Call(quad_.subject, Append(keys, "subject"))>>)
    \o
    (IF quad_.predicate.termType = "Quad"
     THEN forEachTermsNested(quad_.predicate, Append(keys, "predicate"))
     ELSE <<Call(quad_.predicate, Append(keys, "predicate"))>>)
    \o
    (IF quad_.object.termType = "Quad"
     THEN forEachTermsNested(quad_.object, Append(keys, "object"))
     ELSE <<Call(quad_.object, Append(keys, "object"))>>)
    \o
    (IF quad_.graph.termType = "Quad"
     THEN forEachTermsNested(quad_.graph, Append(keys, "graph"))
     ELSE <<Call(quad_.graph, Append(keys, "graph"))>>)

(***************************************************************************)
(* filterTermsNested and filterQuadTermNamesNested.                        *)
(***************************************************************************)
RECURSIVE filterTermsNested(_, _, _)

\* A faulty variant of filterTermsNested: the filter is given the graph of
\* a quad under the keys of its object.
filterTermsNested_graphAsObject(quad_, filter, keys) ==
    (IF quad_.subject.termType = "Quad"
     THEN filterTermsNested(quad_.subject, filter, Append(keys, "subject"))
     ELSE IF CallFilter(filter, quad_.subject, Append(keys, "subject"))
          THEN <<quad_.subject>> ELSE <<>>)
    \o
    (IF quad_.predicate.termType = "Quad"
     THEN filterTermsNested(quad_.predicate, filter, Append(keys, "predicate"))
     ELSE IF CallFilter(filter, quad_.predicate, Append(keys, "predicate"))
          THEN <<quad_.predicate>> ELSE <<>>)
    \o
    (IF quad_.object.termType = "Quad"
     THEN filterTermsNested(quad_.object, filter, Append(keys, "object"))
     ELSE IF CallFilter(filter, quad_.object, Append(keys, "object"))
          THEN <<quad_.object>> ELSE <<>>)
    \o
    (IF quad_.graph.termType = "Quad"
     THEN filterTermsNested(quad_.graph, filter, Append(keys, "graph"))
     ELSE IF CallFilter(filter, quad_.graph, Append(keys, "object"))
          THEN <<quad_.graph>> ELSE <<>>)

filterTermsNested(quad_, filter, keys) ==
    (IF quad_.subject.termType = "Quad"
     THEN filterTermsNested(quad_.subject, filter, Append(keys, "subject"))
     ELSE IF CallFilter(filter, quad_.subject, Append(keys, "subject"))
          THEN <<quad_.subject>> ELSE <<>>)
    \o
    (IF quad_.predicate.termType = "Quad"
     THEN filterTermsNested(quad_.predicate, filter, Append(keys, "predicate"))
     ELSE IF CallFilter(filter, quad_.predicate, Append(keys, "predicate"))
          THEN <<quad_.predicate>> ELSE <<>>)
    \o
    (IF quad_.object.termType = "Quad"
     THEN filterTermsNested(quad_.object, filter, Append(keys, "object"))
     ELSE IF CallFilter(filter, quad_.object, Append(keys, "object"))
          THEN <<quad_.object>> ELSE <<>>)
    \o
    (IF quad_.graph.termType = "Quad"
     THEN filterTermsNested(quad_.graph, filter, Append(keys, "graph"))
     ELSE IF CallFilter(filter, quad_.graph, Append(keys, "graph"))
          THEN <<quad_.graph>> ELSE <<>>)

RECURSIVE filterQuadTermNamesNested(_, _, _)
filterQuadTermNamesNested(quad_, filter, keys) ==
    LET keysS == Append(keys, "subject")
        keysP == Append(keys, "predicate")
        keysO == Append(keys, "object")
        keysG == Append(keys, "graph")
    IN  (IF quad_.subject.termType = "Quad"
         THEN filterQuadTermNamesNested(quad_.subject, filter, keysS)
         ELSE IF CallFilter(filter, quad_.subject, keysS) THEN <<keysS>> ELSE <<>>)
        \o
        (IF quad_.predicate.termType = "Quad"
         THEN filterQuadTermNamesNested(quad_.predicate, filter, keysP)
         ELSE IF CallFilter(filter, quad_.predicate, keysP) THEN <<keysP>> ELSE <<>>)
        \o
        (IF quad_.object.termType = "Quad"
         THEN filterQuadTermNamesNested(quad_.object, filter, keysO)
         ELSE IF CallFilter(filter, quad_.object, keysO) THEN <<keysO>> ELSE <<>>)
        \o
        (IF quad_.graph.termType = "Quad"
         THEN filterQuadTermNamesNested(quad_.graph, filter, keysG)
         ELSE IF CallFilter(filter, quad_.graph, keysG) THEN <<keysG>> ELSE <<>>)

(***************************************************************************)
(* The data factory.  dataFactory is "undefined" (the DataFactory DF of    *)
(* the module is used) or "custom"; the quads of the custom factory carry  *)
(* its name.  A position for which no term is given (undefined or null) is *)
(* NoTerm; the factory puts the default graph in place of a graph that is  *)
(* not given and stores the other positions as they are.                   *)
(***************************************************************************)
NoTerm == [termType |-> "undefined", value |-> ""]

DataFactories == {"undefined", "custom"}

\* (dataFactory || DF).quad(subject, predicate, object, graph)
DataFactoryQuad(dataFactory, subject, predicate, object, graph) ==
    LET g == IF graph = NoTerm THEN defaultGraph ELSE graph
    IN  IF dataFactory = "custom"
        THEN [termType |-> "Quad", value |-> "", subject |-> subject,
              predicate |-> predicate, object |-> object, graph |-> g,
              factory |-> "custom"]
        ELSE quad(subject, predicate, object, g)

(***************************************************************************)
(* mapTermsNested.  The value is the new quad, calls the invocations of    *)
(* the mapper in the order the arguments of quad(...) are evaluated.       *)
(***************************************************************************)
RECURSIVE mapTermsNested(_, _, _, _)

\* A faulty variant of mapTermsNested: the quoted quads are rebuilt without
\* the data factory that was given.
mapTermsNested_factoryLost(quad_, mapper, dataFactory, keys) ==
    LET leaf(term, k) == [value |-> CallMapper(mapper, term, k), calls |-> <<Call(term, k)>>]
        s == IF quad_.subject.termType = "Quad"
             THEN mapTermsNested(quad_.subject, mapper, "undefined", Append(keys, "subject"))
             ELSE leaf(quad_.subject, Append(keys, "subject"))
        p == IF quad_.predicate.termType = "Quad"
             THEN mapTermsNested(quad_.predicate, mapper, "undefined", Append(keys, "predicate"))
             ELSE leaf(quad_.predicate, Append(keys, "predicate"))
        o == IF quad_.object.termType = "Quad"
             THEN mapTermsNested(quad_.object, mapper, "undefined", Append(keys, "object"))
             ELSE leaf(quad_.object, Append(keys, "object"))
        g == IF quad_.graph.termType = "Quad"
             THEN mapTermsNested(quad_.graph, mapper, "undefined", Append(keys, "graph"))
             ELSE leaf(quad_.graph, Append(keys, "graph"))
    IN  [value |-> DataFactoryQuad(dataFactory, s.value, p.value, o.value, g.value),
         calls |-> s.calls \o p.calls \o o.calls \o g.calls]

mapTermsNested(quad_, mapper, dataFactory, keys) ==
    LET leaf(term, k) == [value |-> CallMapper(mapper, term, k), calls |-> <<Call(term, k)>>]
        s == IF quad_.subject.termType = "Quad"
             THEN mapTermsNested(quad_.subject, mapper, dataFactory, Append(keys, "subject"))
             ELSE leaf(quad_.subject, Append(keys, "subject"))
        p == IF quad_.predicate.termType = "Quad"
             THEN mapTermsNested(quad_.predicate, mapper, dataFactory, Append(keys, "predicate"))
             ELSE leaf(quad_.predicate, Append(keys, "predicate"))
        o == IF quad_.object.termType = "Quad"
             THEN mapTermsNested(quad_.object, mapper, dataFactory, Append(keys, "object"))
             ELSE leaf(quad_.object, Append(keys, "object"))
        g == IF quad_.graph.termType = "Quad"
             THEN mapTermsNested(quad_.graph, mapper, dataFactory, Append(keys, "graph"))
             ELSE leaf(quad_.graph, Append(keys, "graph"))
    IN  [value |-> DataFactoryQuad(dataFactory, s.value, p.value, o.value, g.value),
         calls |-> s.calls \o p.calls \o o.calls \o g.calls]

(***************************************************************************)
(* reduceTermsNested, everyTermsNested, someTermsNested.                   *)
(***************************************************************************)
RECURSIVE reduceTermsNested(_, _, _, _)

\* A faulty variant of reduceTermsNested: the quoted quad in the subject
\* position is reduced from the initial value of its own.
reduceTermsNested_restart(quad_, reducer, initialValue, keys) ==
    LET v1 == IF quad_.subject.termType = "Quad"
              THEN initialValue
                   \o reduceTermsNested(quad_.subject, reducer, <<>>, Append(keys, "subject"))
              ELSE CallReducer(reducer, initialValue, quad_.subject, Append(keys, "subject"))
        v2 == IF quad_.predicate.termType = "Quad"
              THEN reduceTermsNested(quad_.predicate, reducer, v1, Append(keys, "predicate"))
              ELSE CallReducer(reducer, v1, quad_.predicate, Append(keys, "predicate"))
        v3 == IF quad_.object.termType = "Quad"
              THEN reduceTermsNested(quad_.object, reducer, v2, Append(keys, "object"))
              ELSE CallReducer(reducer, v2, quad_.object, Append(keys, "object"))
        v4 == IF quad_.graph.termType = "Quad"
              THEN reduceTermsNested(quad_.graph, reducer, v3, Append(keys, "graph"))
              ELSE CallReducer(reducer, v3, quad_.graph, Append(keys, "graph"))
    IN  v4

reduceTermsNested(quad_, reducer, initialValue, keys) ==
    LET v1 == IF quad_.subject.termType = "Quad"
              THEN reduceTermsNested(quad_.subject, reducer, initialValue, Append(keys, "subject"))
              ELSE CallReducer(reducer, initialValue, quad_.subject, Append(keys, "subject"))
        v2 == IF quad_.predicate.termType = "Quad"
              THEN reduceTermsNested(quad_.predicate, reducer, v1, Append(keys, "predicate"))
              ELSE CallReducer(reducer, v1, quad_.predicate, Append(keys, "predicate"))
        v3 == IF quad_.object.termType = "Quad"
              THEN reduceTermsNested(quad_.object, reducer, v2, Append(keys, "object"))
              ELSE CallReducer(reducer, v2, quad_.object, Append(keys, "object"))
        v4 == IF quad_.graph.termType = "Quad"
              THEN reduceTermsNested(quad_.graph, reducer, v3, Append(keys, "graph"))
              ELSE CallReducer(reducer, v3, quad_.graph, Append(keys, "graph"))
    IN  v4

\* The four operands are joined by &&.
RECURSIVE everyTermsNested(_, _, _)
everyTermsNested(quad_, checker_, keys) ==
    /\ IF quad_.subject.termType = "Quad"
       THEN everyTermsNested(quad_.subject, checker_, Append(keys, "subject"))
       ELSE CallFilter(checker_, quad_.subject, Append(keys, "subject"))
    /\ IF quad_.predicate.termType = "Quad"
       THEN everyTermsNested(quad_.predicate, checker_, Append(keys, "predicate"))
       ELSE CallFilter(checker_, quad_.predicate, Append(keys, "predicate"))
    /\ IF quad_.object.termType = "Quad"
       THEN everyTermsNested(quad_.object, checker_, Append(keys, "object"))
       ELSE CallFilter(checker_, quad_.object, Append(keys, "object"))
    /\ IF quad_.graph.termType = "Quad"
       THEN everyTermsNested(quad_.graph, checker_, Append(keys, "graph"))
       ELSE CallFilter(checker_, quad_.graph, Append(keys, "graph"))

\* The four operands are joined by ||.
RECURSIVE someTermsNested(_, _, _)
someTermsNested(quad_, checker_, keys) ==
    \/ IF quad_.subject.termType = "Quad"
       THEN someTermsNested(quad_.subject, checker_, Append(keys, "subject"))
       ELSE CallFilter(checker_, quad_.subject, Append(keys, "subject"))
    \/ IF quad_.predicate.termType = "Quad"
       THEN someTermsNested(quad_.predicate, checker_, Append(keys, "predicate"))
       ELSE CallFilter(checker_, quad_.predicate, Append(keys, "predicate"))
    \/ IF quad_.object.termType = "Quad"
       THEN someTermsNested(quad_.object, checker_, Append(keys, "object"))
       ELSE CallFilter(checker_, quad_.object, Append(keys, "object"))
    \/ IF quad_.graph.termType = "Quad"
       THEN someTermsNested(quad_.graph, checker_, Append(keys, "graph"))
       ELSE CallFilter(checker_, quad_.graph, Append(keys, "graph"))

(***************************************************************************)
(* getTerms and getTermsNested.  ignoreDefaultGraph is "undefined" (not    *)
(* given), "false" or "true".                                              *)
(***************************************************************************)
Flags == {"undefined", "false", "true"}

\* A faulty variant of getTerms: the graph is left out whenever the flag is
\* set.
getTerms_anyGraph(quad_, ignoreDefaultGraph) ==
    IF ignoreDefaultGraph = "true"
    THEN <<quad_.subject, quad_.predicate, quad_.object>>
    ELSE <<quad_.subject, quad_.predicate, quad_.object, quad_.graph>>

getTerms(quad_, ignoreDefaultGraph) ==
    IF ignoreDefaultGraph = "true" /\ quad_.graph.termType = "DefaultGraph"
    THEN <<quad_.subject, quad_.predicate, quad_.object>>
    ELSE <<quad_.subject, quad_.predicate, quad_.object, quad_.graph>>

RECURSIVE getTermsNested(_, _)
RECURSIVE getTermsNestedFrom(_, _, _)

\* A faulty variant of getTermsNestedFrom: the flag is not handed to the
\* calls for the quoted quads.
getTermsNestedFrom_flagLost(terms, i, ignoreDefaultGraph) ==
    IF i > Len(terms) THEN <<>>
    ELSE (IF terms[i].termType = "Quad"
          THEN getTermsNested(terms[i], "undefined")
          ELSE <<terms[i]>>)
         \o getTermsNestedFrom(terms, i + 1, ignoreDefaultGraph)

\* for (const term of getTerms(quad, ignoreDefaultGraph)) { ... }, from the
\* i-th term on
getTermsNestedFrom(terms, i, ignoreDefaultGraph) ==
    IF i > Len(terms) THEN <<>>
    ELSE (IF terms[i].termType = "Quad"
          THEN getTermsNested(terms[i], ignoreDefaultGraph)
          ELSE <<terms[i]>>)
         \o getTermsNestedFrom(terms, i + 1, ignoreDefaultGraph)

getTermsNested(quad_, ignoreDefaultGraph) ==
    getTermsNestedFrom(getTerms(quad_, ignoreDefaultGraph), 1, ignoreDefaultGraph)

(***************************************************************************)
(* getNamedTerms and collectNamedTerms.                                    *)
(***************************************************************************)
NamedTerm(key, value) == [key |-> key, value |-> value]

\* A faulty variant of getNamedTerms: the predicate and the object are
\* given under each other's key.
getNamedTerms_swapped(quad_) ==
    <<NamedTerm("subject", quad_.subject), NamedTerm("object", quad_.predicate),
      NamedTerm("predicate", quad_.object), NamedTerm("graph", quad_.graph)>>

getNamedTerms(quad_) ==
    <<NamedTerm("subject", quad_.subject), NamedTerm("predicate", quad_.predicate),
      NamedTerm("object", quad_.object), NamedTerm("graph", quad_.graph)>>

\* defaultCb: not given, null, termName => DF.variable(termName), or
\* () => null
DefaultCbs == {"undefined", "null", "variable", "returnsNull"}

CallDefaultCb(defaultCb, termName) ==
    IF defaultCb = "variable" THEN variable(termName) ELSE NoTerm

\* namedTerms.forEach(namedTerm => elements[namedTerm.key] = namedTerm.value):
\* the last entry of a key stays.
CollectElements(namedTerms) ==
    [k \in {namedTerms[i].key : i \in DOMAIN namedTerms} |->
        namedTerms[CHOOSE i \in DOMAIN namedTerms :
                      /\ namedTerms[i].key = k
                      /\ \A j \in DOMAIN namedTerms : j > i => namedTerms[j].key # k].value]

\* elements.<termName>, which is undefined for a key that was not assigned
Element(elements, termName) ==
    IF termName \in DOMAIN elements THEN elements[termName] ELSE NoTerm

\* A faulty variant of Defaulted: the callback is asked for every position.
Defaulted_always(st, defaultCb, termName) ==
    LET v == CallDefaultCb(defaultCb, termName)
    IN  [elements |-> IF v = NoTerm THEN st.elements
                      ELSE (termName :> v) @@ st.elements,
         calls |-> Append(st.calls, termName)]

\* elements.<termName> = elements.<termName> || defaultCb('<termName>')
Defaulted(st, defaultCb, termName) ==
    IF Element(st.elements, termName) # NoTerm THEN st
    ELSE LET v == CallDefaultCb(defaultCb, termName)
         IN  [elements |-> IF v = NoTerm THEN st.elements
                           ELSE (termName :> v) @@ st.elements,
              calls |-> Append(st.calls, termName)]

\* The value is the quad that is returned, calls the names defaultCb was
\* invoked with.
collectNamedTerms(namedTerms, defaultCb, dataFactory) ==
    LET st0 == [elements |-> CollectElements(namedTerms), calls |-> <<>>]
        st4 == IF defaultCb \in {"undefined", "null"} THEN st0
               ELSE Defaulted(Defaulted(Defaulted(Defaulted(st0,
                        defaultCb, "subject"), defaultCb, "predicate"),
                        defaultCb, "object"), defaultCb, "graph")
    IN  [value |-> DataFactoryQuad(dataFactory,
                       Element(st4.elements, "subject"), Element(st4.elements, "predicate"),
                       Element(st4.elements, "object"), Element(st4.elements, "graph")),
         calls |-> st4.calls]

(***************************************************************************)
(* matchTerm, matchPattern, matchPatternComplete.  An argument that is not *)
(* given (undefined or null) is NoTerm.                                    *)
(***************************************************************************)
RECURSIVE matchTerm(_, _)
RECURSIVE matchPattern(_, _, _, _, _)
RECURSIVE matchPatternComplete(_, _)

\* A faulty variant of matchTerm: two Quads are compared by equals only.
matchTerm_quadByEquals(termA, termB) ==
    \/ termB = NoTerm
    \/ termB.termType = "Variable"
    \/ equals(termB, termA)

matchTerm(termA, termB) ==
    \/ termB = NoTerm
    \/ termB.termType = "Variable"
    \/ /\ termB.termType = "Quad"
       /\ termA.termType = "Quad"
       /\ matchPatternComplete(termA, termB)
    \/ equals(termB, termA)

\* A faulty variant of matchPattern: the graph is not looked at.
matchPattern_noGraph(quad_, subject, predicate, object, graph) ==
    /\ matchTerm(quad_.subject, subject)
    /\ matchTerm(quad_.predicate, predicate)
    /\ matchTerm(quad_.object, object)

matchPattern(quad_, subject, predicate, object, graph) ==
    /\ matchTerm(quad_.subject, subject)
    /\ matchTerm(quad_.predicate, predicate)
    /\ matchTerm(quad_.object, object)
    /\ matchTerm(quad_.graph, graph)

\* A faulty variant of matchPatternComplete: two positions of the pattern
\* that hold the same Variable must face equal terms of the quad.
matchPatternComplete_consistent(quad_, pattern_) ==
    /\ matchPattern(quad_, pattern_.subject, pattern_.predicate,
                    pattern_.object, pattern_.graph)
    /\ \A i, j \in 1..Len(QUAD_TERM_NAMES) :
          (/\ pattern_[QUAD_TERM_NAMES[i]].termType = "Variable"
           /\ pattern_[QUAD_TERM_NAMES[j]] = pattern_[QUAD_TERM_NAMES[i]])
             => equals(quad_[QUAD_TERM_NAMES[i]], quad_[QUAD_TERM_NAMES[j]])

matchPatternComplete(quad_, pattern_) ==
    matchPattern(quad_, pattern_.subject, pattern_.predicate,
                 pattern_.object, pattern_.graph)

(***************************************************************************)
(* everyTerms, someTerms.  The value is what is returned, calls the        *)
(* invocations of the checker in order.                                    *)
(***************************************************************************)
\* (value, key) => boolean, for the checker parameter
Checkers == {"false", "true", "isNamedNode", "isVariable", "keyIsGraph"}

CallChecker(checker_, value, key) ==
    CASE checker_ = "false" -> FALSE
      [] checker_ = "true" -> TRUE
      [] checker_ = "isNamedNode" -> value.termType = "NamedNode"
      [] checker_ = "isVariable" -> value.termType = "Variable"
      [] checker_ = "keyIsGraph" -> key = "graph"

\* A faulty variant of everyTerms: the checker is invoked for the four
\* positions before the results are combined.
everyTerms_allFour(quad_, checker_) ==
    [value |-> \A i \in 1..Len(QUAD_TERM_NAMES) :
                  CallChecker(checker_, quad_[QUAD_TERM_NAMES[i]], QUAD_TERM_NAMES[i]),
     calls |-> [i \in 1..Len(QUAD_TERM_NAMES) |->
                  Call(quad_[QUAD_TERM_NAMES[i]], QUAD_TERM_NAMES[i])]]

\* checker(quad.subject, 'subject') && checker(quad.predicate, 'predicate')
\*   && checker(quad.object, 'object') && checker(quad.graph, 'graph')
everyTerms(quad_, checker_) ==
    LET c1 == Call(quad_.subject, "subject")
        c2 == Call(quad_.predicate, "predicate")
        c3 == Call(quad_.object, "object")
        c4 == Call(quad_.graph, "graph")
    IN  IF ~CallChecker(checker_, quad_.subject, "subject")
        THEN [value |-> FALSE, calls |-> <<c1>>]
        ELSE IF ~CallChecker(checker_, quad_.predicate, "predicate")
        THEN [value |-> FALSE, calls |-> <<c1, c2>>]
        ELSE IF ~CallChecker(checker_, quad_.object, "object")
        THEN [value |-> FALSE, calls |-> <<c1, c2, c3>>]
        ELSE [value |-> CallChecker(checker_, quad_.graph, "graph"),
              calls |-> <<c1, c2, c3, c4>>]

\* checker(quad.subject, 'subject') || checker(quad.predicate, 'predicate')
\*   || checker(quad.object, 'object') || checker(quad.graph, 'graph')
someTerms(quad_, checker_) ==
    LET c1 == Call(quad_.subject, "subject")
        c2 == Call(quad_.predicate, "predicate")
        c3 == Call(quad_.object, "object")
        c4 == Call(quad_.graph, "graph")
    IN  IF CallChecker(checker_, quad_.subject, "subject")
        THEN [value |-> TRUE, calls |-> <<c1>>]
        ELSE IF CallChecker(checker_, quad_.predicate, "predicate")
        THEN [value |-> TRUE, calls |-> <<c1, c2>>]
        ELSE IF CallChecker(checker_, quad_.object, "object")
        THEN [value |-> TRUE, calls |-> <<c1, c2, c3>>]
        ELSE [value |-> CallChecker(checker_, quad_.graph, "graph"),
              calls |-> <<c1, c2, c3, c4>>]

(***************************************************************************)
(* uniqTerms.                                                              *)
(***************************************************************************)
\* termToString of rdf-string: the value of a NamedNode or DefaultGraph as
\* it is, "_:" before the label of a BlankNode, "?" before the name of a
\* Variable, a Literal (of the model: a plain string) between quotes, a Quad
\* as << subject predicate object graph >> without the default graph.
RECURSIVE termToString(_)
termToString(term) ==
    CASE term.termType = "NamedNode" -> term.value
      [] term.termType = "BlankNode" -> "_:" \o term.value
      [] term.termType = "Literal" -> "\"" \o term.value \o "\""
      [] term.termType = "Variable" -> "?" \o term.value
      [] term.termType = "DefaultGraph" -> term.value
      [] term.termType = "Quad" ->
            "<<" \o termToString(term.subject) \o " " \o termToString(term.predicate)
                 \o " " \o termToString(term.object)
                 \o (IF term.graph.termType = "DefaultGraph" THEN ""
                     ELSE " " \o termToString(term.graph))
                 \o ">>"

\* The property names that every object literal inherits from
\* Object.prototype: for these `name in {}` is true.
ObjectPrototypeNames ==
    {"constructor", "hasOwnProperty", "isPrototypeOf", "propertyIsEnumerable",
     "toLocaleString", "toString", "valueOf", "__proto__",
     "__defineGetter__", "__defineSetter__", "__lookupGetter__", "__lookupSetter__"}

\* termString in hash, hash being an object literal with the own keys keys
InHash(termString, keys) == termString \in keys \cup ObjectPrototypeNames

\* terms.filter(term => { const termString = termToString(term);
\*   return !(termString in hash) && (hash[termString] = true); })
\* from index i on, keys being the own keys of hash
RECURSIVE uniqTermsFrom(_, _, _)
uniqTermsFrom(terms, i, keys) ==
    IF i > Len(terms) THEN <<>>
    ELSE LET termString == termToString(terms[i])
         IN  IF ~InHash(termString, keys)
             THEN <<terms[i]>> \o uniqTermsFrom(terms, i + 1, keys \cup {termString})
             ELSE uniqTermsFrom(terms, i + 1, keys)

\* const hash: Record<string, boolean> = {}; return terms.filter(...)
uniqTerms(terms) == uniqTermsFrom(terms, 1, {})

\* The former uniqTerms:
\*   require('lodash.uniqwith')(terms, (termA, termB) => termA.equals(termB))
\* a term is kept unless it equals a term kept before it.
RECURSIVE uniqWithFrom(_, _, _)
uniqWithFrom(terms, i, kept) ==
    IF i > Len(terms) THEN kept
    ELSE IF \E j \in 1..Len(kept) : equals(terms[i], kept[j])
         THEN uniqWithFrom(terms, i + 1, kept)
         ELSE uniqWithFrom(terms, i + 1, Append(kept, terms[i]))

uniqTermsWith(terms) == uniqWithFrom(terms, 1, <<>>)

(***************************************************************************)
(* The depth of the recursion: the number of calls of a function by itself *)
(* that are open at one time, the call from outside not counted.           *)
(***************************************************************************)
Max2(a, b) == IF a >= b THEN a ELSE b

\* A faulty variant of traversalDepth: the function calls itself for every
\* term, also for one that is no Quad.
RECURSIVE traversalDepth_everyTerm(_)
traversalDepth_everyTerm(term) ==
    IF term.termType # "Quad" THEN 0
    ELSE Max2(Max2(1 + traversalDepth_everyTerm(term.subject),
                   1 + traversalDepth_everyTerm(term.predicate)),
              Max2(1 + traversalDepth_everyTerm(term.object),
                   1 + traversalDepth_everyTerm(term.graph)))

\* forEachTermsNested, filterTermsNested, filterQuadTermNamesNested,
\* mapTermsNested, reduceTermsNested and getTermsNested: each calls itself
\* for the term of a position exactly when that term is a Quad
\* (if (quad.subject.termType === 'Quad') ..., and so for the other three).
RECURSIVE traversalDepth(_)
traversalDepth(quad_) ==
    LET below(term) == IF term.termType = "Quad" THEN 1 + traversalDepth(term) ELSE 0
    IN  Max2(Max2(below(quad_.subject), below(quad_.predicate)),
             Max2(below(quad_.object), below(quad_.graph)))

\* everyTermsNested (every = TRUE) and someTermsNested (every = FALSE), from
\* position i on: the operand of a position is evaluated when no operand
\* before it has decided the result.
RECURSIVE checkedDepthFrom(_, _, _, _, _)
checkedDepthFrom(every, quad_, checker_, keys, i) ==
    IF i > Len(QUAD_TERM_NAMES) THEN 0
    ELSE LET term == quad_[QUAD_TERM_NAMES[i]]
             path == Append(keys, QUAD_TERM_NAMES[i])
             here == IF term.termType = "Quad"
                     THEN 1 + checkedDepthFrom(every, term, checker_, path, 1)
                     ELSE 0
             value == IF term.termType # "Quad" THEN CallFilter(checker_, term, path)
                      ELSE IF every THEN everyTermsNested(term, checker_, path)
                      ELSE someTermsNested(term, checker_, path)
         IN  IF value = every
             THEN Max2(here, checkedDepthFrom(every, quad_, checker_, keys, i + 1))
             ELSE here

\* getValueNestedPath calls itself once for every key that it follows.
RECURSIVE getValueNestedPathDepth(_, _)
getValueNestedPathDepth(term, keys) ==
    IF Len(keys) = 0 THEN 0
    ELSE IF term.termType = "Quad"
         THEN 1 + getValueNestedPathDepth(term[keys[1]], Slice1(keys))
         ELSE 0

\* match(_pattern, _quad), from position i on: match calls itself when t1
\* and t2 are Quads, and a position is looked at when those before it
\* matched.
RECURSIVE matchDepthFrom(_, _, _, _, _)
matchDepthFrom(_pattern, _quad, i, map, opt) ==
    IF i > Len(QUAD_TERM_NAMES) THEN 0
    ELSE LET t1 == _pattern[QUAD_TERM_NAMES[i]]
             t2 == _quad[QUAD_TERM_NAMES[i]]
             r == checker(t1, t2, map, opt)
             here == IF t1.termType = "Quad" /\ t2.termType = "Quad"
                     THEN 1 + matchDepthFrom(t1, t2, 1, map, opt)
                     ELSE 0
         IN  IF r.ok
             THEN Max2(here, matchDepthFrom(_pattern, _quad, i + 1, r.map, opt))
             ELSE here

(***************************************************************************)
(* The arguments the model draws.                                          *)
(***************************************************************************)
Names == <<"s", "o", "p", "g", "f">>

Iris == {namedNode(Names[i]) : i \in 1..NumIris}

Vars == {variable(Names[i]) : i \in 1..NumVars}

Atoms == Iris \cup Vars

\* The subjects of the quoted quads: an IRI, a variable and a second IRI.
QuotedSubjects == {namedNode(Names[1]), variable(Names[1]), namedNode(Names[NumIris])}

\* Quoted quads of nesting depth below d.  The flat ones have the subjects
\* above; a deeper one has as its subject a quoted quad of the depth before
\* whose own subject is a Variable or a Quad.
RECURSIVE QuotedQuads(_)
QuotedQuads(d) ==
    IF d = 0 THEN {}
    ELSE {quad(s, namedNode(Names[1]), namedNode(Names[1]), defaultGraph) :
             s \in IF d = 1 THEN QuotedSubjects
                   ELSE {q \in QuotedQuads(d - 1) \ QuotedQuads(d - 2) :
                            q.subject.termType \in {"Variable", "Quad"}}}
         \cup QuotedQuads(d - 1)

SubjectTerms == Atoms \cup QuotedQuads(MaxDepth)

PredicateTerms == {namedNode(Names[1]), variable(Names[1])}

ObjectTerms == {namedNode(Names[1]), literal(Names[1])} \cup Vars \cup QuotedQuads(MaxDepth)

GraphTerms == {defaultGraph, variable(Names[2])}

GeneralQuads ==
    {quad(s, p, o, g) : s \in SubjectTerms, p \in PredicateTerms,
                        o \in ObjectTerms, g \in GraphTerms}

\* quadVariables of the tests: four variables with pairwise different names.
quadVariables == quad(variable("s"), variable("p"), variable("o"), variable("g"))

\* quadNamedNodes of the tests.
quadNamedNodes == quad(namedNode("s"), namedNode("p"), namedNode("o"), namedNode("g"))

\* A triple of a variable, an IRI and a literal.
tripleMixed == quad(variable("s"), namedNode("p"), literal("o"), defaultGraph)

DistinctVariableQuads ==
    {quadVariables,
     quad(variable("g"), variable("o"), variable("p"), variable("s"))}

Quads == GeneralQuads \cup DistinctVariableQuads

OptionNames == {"skipVarMapping", "returnMappings"}

\* opt: absent ({}), the options that are set given as true, or both given
\* as false.
Options ==
    {o \in UNION {[D -> BOOLEAN] : D \in SUBSET OptionNames} :
        \/ \A k \in DOMAIN o : o[k]
        \/ DOMAIN o = OptionNames /\ \A k \in DOMAIN o : ~o[k]}

\* t with the term at position key replaced by u
WithTerm(t, key, u) == [t EXCEPT ![key] = u]

\* The terms handed to getValueNestedPath: the two base quads, and
\* quadNamedNodes with a quad of the family nested in any one position, to
\* depth d; and terms that are no Quad.
RECURSIVE NestedQuads(_)
NestedQuads(d) ==
    IF d = 0 THEN {quadNamedNodes, tripleMixed}
    ELSE NestedQuads(0) \cup
         {WithTerm(quadNamedNodes, QUAD_TERM_NAMES[i], q) :
             i \in 1..Len(QUAD_TERM_NAMES), q \in NestedQuads(d - 1)}

PathTerms ==
    NestedQuads(MaxPath)
      \cup {namedNode("s"), literal("o"), variable("s"), blankNode("s"), defaultGraph}

RECURSIVE KeySeqs(_)
KeySeqs(n) ==
    IF n = 0 THEN {<<>>}
    ELSE KeySeqs(n - 1) \cup
         {Append(ks, QUAD_TERM_NAMES[i]) :
             ks \in {k \in KeySeqs(n - 1) : Len(k) = n - 1}, i \in 1..Len(QUAD_TERM_NAMES)}

Paths == KeySeqs(MaxPath)

\* A quad with the default graph in its subject and in its graph position.
quadDefaultGraphs == quad(defaultGraph, namedNode("p"), blankNode("o"), defaultGraph)

FlatQuads == {quadNamedNodes, tripleMixed, quadDefaultGraphs}

\* The quads handed to the traversals: the flat ones, and quadNamedNodes and
\* tripleMixed with a quad of the family in any one position, to depth d.
RECURSIVE QuotedIn(_)
QuotedIn(d) ==
    IF d = 0 THEN FlatQuads
    ELSE FlatQuads \cup
         {WithTerm(host, QUAD_TERM_NAMES[i], q) :
             host \in {quadNamedNodes, tripleMixed},
             i \in 1..Len(QUAD_TERM_NAMES), q \in QuotedIn(d - 1)}

\* quads all four positions of which are quoted quads
AllQuoted == {quad(q1, q2, q2, q1) : q1, q2 \in FlatQuads}

TraversalQuads == QuotedIn(MaxNest) \cup AllQuoted

\* initialValue of reduceTermsNested
InitialValues == {<<>>, <<Call(defaultGraph, <<>>)>>}

\* The quads whose named terms are handed to collectNamedTerms in part.
CollectQuads ==
    {quadNamedNodes, tripleMixed, WithTerm(tripleMixed, "object", quadNamedNodes)}

\* the subsequence of seq at the indices in keep
RECURSIVE Pick(_, _, _)
Pick(seq, keep, i) ==
    IF i > Len(seq) THEN <<>>
    ELSE (IF i \in keep THEN <<seq[i]>> ELSE <<>>) \o Pick(seq, keep, i + 1)

\* namedTerms for quad q: its named terms; and, for the quads above, every
\* part of them, the four in reverse order, and the four followed or
\* preceded by a second subject.
NamedTermLists(q) ==
    LET all == getNamedTerms(q)
    IN  IF q \notin CollectQuads THEN {all}
        ELSE {Pick(all, keep, 1) : keep \in SUBSET (1..4)}
             \cup {<<all[4], all[3], all[2], all[1]>>,
                   Append(all, NamedTerm("subject", variable("f"))),
                   <<NamedTerm("subject", variable("f"))>> \o all}

\* The quads and patterns of matchPattern and matchPatternComplete: the
\* general quads with an IRI as predicate.
LegacyQuads == {q \in GeneralQuads : q.predicate = namedNode(Names[1])}

\* termA and termB of matchTerm
MatchTerms ==
    SubjectTerms \cup ObjectTerms \cup GraphTerms \cup DistinctVariableQuads
      \cup {blankNode(Names[1])}

\* The positions of matchPattern that are not given: none, one, or all.
AbsentPositions == {{}, {1}, {2}, {3}, {4}, {1, 2, 3, 4}}

\* subject, predicate, object, graph of matchPattern: the terms of a
\* pattern, some of them not given.
MatchPatternArgs ==
    {[i \in 1..4 |-> IF i \in absent THEN NoTerm ELSE p[QUAD_TERM_NAMES[i]]] :
        p \in {q \in LegacyQuads : q.object \in Atoms}, absent \in AbsentPositions}

\* The terms handed to uniqTerms: the five terms of the tests that share a
\* value, a quad and a quad that quotes it, and two more IRIs.
UniqTermPool ==
    LET q == quad(namedNode(Names[1]), namedNode(Names[1]), namedNode(Names[1]),
                  defaultGraph)
    IN  {variable(Names[1]), namedNode(Names[1]), literal(Names[1]), defaultGraph,
         blankNode(Names[1]), q, WithTerm(q, "subject", q),
         namedNode("?" \o Names[1]), namedNode("constructor")}

\* the arrays over S of length n or less
RECURSIVE Arrays(_, _)
Arrays(S, n) ==
    IF n = 0 THEN {<<>>}
    ELSE Arrays(S, n - 1)
         \cup {Append(a, t) : a \in {b \in Arrays(S, n - 1) : Len(b) = n - 1}, t \in S}

(***************************************************************************)
(* The state machine.                                                      *)
(***************************************************************************)
VARIABLES
    op,          \* the function that is called
    argQuad,     \* matchPatternMappings: the argument quad
    argPattern,  \* matchPatternMappings, matchPatternComplete: the argument
                 \* pattern
    argOpt,      \* matchPatternMappings: the argument opt
    argTerm,     \* getValueNestedPath: the argument term; matchTerm: termA
    argKeys,     \* getValueNestedPath: the argument keys
    argCb,       \* the callback argument (cb, filter, mapper, reducer, checker,
                 \* defaultCb), by name
    argFlag,     \* getTerms, getTermsNested: the argument ignoreDefaultGraph
    argFactory,  \* mapTermsNested, collectNamedTerms: the argument dataFactory
    argInit,     \* reduceTermsNested: the argument initialValue
    argEntries,  \* collectNamedTerms: the argument namedTerms
    argTerms,    \* matchTerm: the argument termB; matchPattern: the arguments
                 \* subject, predicate, object, graph; uniqTerms: the argument
                 \* terms
    heap,        \* the maps the calls of matchPatternMappings have made, in
                 \* the order they were made
    returned,    \* the calls of matchPatternMappings that have returned: their
                 \* arguments, their result and the map they made
    pc,          \* "call" before the call, "done" after it
    matched,     \* matchPatternMappings: what match(pattern, quad) returned
    map,         \* matchPatternMappings: the closure variable map
    calls,       \* the invocations of the callback, in order
    result       \* what the call returned or threw

args ==
    <<op, argQuad, argPattern, argOpt, argTerm, argKeys,
      argCb, argFlag, argFactory, argInit, argEntries, argTerms>>

vars == <<args, heap, returned, pc, matched, map, calls, result>>

\* the arguments that the function called does not have
NoMatcherArgs == argPattern = quadNamedNodes /\ argOpt = <<>>

NoPathArgs == argTerm = defaultGraph /\ argKeys = <<>>

NoTraversalArgs ==
    /\ argCb = "undefined" /\ argFlag = "undefined" /\ argFactory = "undefined"
    /\ argInit = <<>> /\ argEntries = <<>> /\ argTerms = <<>>

NoResult == [type |-> "none"]

InitMatchPatternMappings ==
    /\ op = "matchPatternMappings"
    /\ argQuad \in Quads
    /\ argPattern \in Quads
    /\ argOpt \in Options
    /\ NoPathArgs /\ NoTraversalArgs

InitGetValueNestedPath ==
    /\ op = "getValueNestedPath"
    /\ argTerm \in PathTerms
    /\ argKeys \in Paths
    /\ argQuad = quadNamedNodes
    /\ NoMatcherArgs /\ NoTraversalArgs

\* The arguments of a call of one of the functions over a quad.
InitQuadCall(name, cbs, flags, factories, initialValues) ==
    /\ op = name
    /\ argQuad \in TraversalQuads
    /\ argCb \in cbs
    /\ argFlag \in flags
    /\ argFactory \in factories
    /\ argInit \in initialValues
    /\ argEntries = <<>>
    /\ argTerms = <<>>
    /\ NoMatcherArgs /\ NoPathArgs

InitTraversals ==
    \/ InitQuadCall("getTerms", {"undefined"}, Flags, {"undefined"}, {<<>>})
    \/ InitQuadCall("getTermsNested", {"undefined"}, Flags, {"undefined"}, {<<>>})
    \/ InitQuadCall("getNamedTerms", {"undefined"}, {"undefined"}, {"undefined"}, {<<>>})
    \/ InitQuadCall("forEachTermsNested", {"record"}, {"undefined"}, {"undefined"}, {<<>>})
    \/ InitQuadCall("filterTermsNested", Filters, {"undefined"}, {"undefined"}, {<<>>})
    \/ InitQuadCall("filterQuadTermNamesNested", Filters, {"undefined"}, {"undefined"}, {<<>>})
    \/ InitQuadCall("mapTermsNested", Mappers, {"undefined"}, DataFactories, {<<>>})
    \/ InitQuadCall("reduceTermsNested", Reducers, {"undefined"}, {"undefined"}, InitialValues)
    \/ InitQuadCall("everyTermsNested", Filters, {"undefined"}, {"undefined"}, {<<>>})
    \/ InitQuadCall("someTermsNested", Filters, {"undefined"}, {"undefined"}, {<<>>})
    \/ InitQuadCall("everyTerms", Checkers, {"undefined"}, {"undefined"}, {<<>>})
    \/ InitQuadCall("someTerms", Checkers, {"undefined"}, {"undefined"}, {<<>>})

\* argQuad is the quad the named terms are taken from.
InitCollectNamedTerms ==
    /\ op = "collectNamedTerms"
    /\ argQuad \in TraversalQuads
    /\ argEntries \in NamedTermLists(argQuad)
    /\ argCb \in DefaultCbs
    /\ argFactory \in DataFactories
    /\ argFlag = "undefined"
    /\ argInit = <<>>
    /\ argTerms = <<>>
    /\ NoMatcherArgs /\ NoPathArgs

\* termA and termB of matchTerm; termB may be absent.
InitMatchTerm ==
    /\ op = "matchTerm"
    /\ argTerm \in MatchTerms
    /\ argTerms \in {<<termB>> : termB \in MatchTerms \cup {NoTerm}}
    /\ argQuad = quadNamedNodes /\ argKeys = <<>>
    /\ argCb = "undefined" /\ argFlag = "undefined" /\ argFactory = "undefined"
    /\ argInit = <<>> /\ argEntries = <<>>
    /\ NoMatcherArgs

\* quad and the four optional terms of matchPattern.
InitMatchPattern ==
    /\ op = "matchPattern"
    /\ argQuad \in LegacyQuads
    /\ argTerms \in MatchPatternArgs
    /\ argCb = "undefined" /\ argFlag = "undefined" /\ argFactory = "undefined"
    /\ argInit = <<>> /\ argEntries = <<>>
    /\ NoMatcherArgs /\ NoPathArgs

InitUniqTerms ==
    /\ op = "uniqTerms"
    /\ argTerms \in Arrays(UniqTermPool, MaxTerms)
    /\ argQuad = quadNamedNodes /\ argKeys = <<>> /\ argTerm = defaultGraph
    /\ argCb = "undefined" /\ argFlag = "undefined" /\ argFactory = "undefined"
    /\ argInit = <<>> /\ argEntries = <<>>
    /\ NoMatcherArgs

InitMatchPatternComplete ==
    /\ op = "matchPatternComplete"
    /\ argQuad \in LegacyQuads
    /\ argPattern \in LegacyQuads
    /\ argOpt = <<>>
    /\ NoPathArgs /\ NoTraversalArgs

Init ==
    /\ \/ InitMatchPatternMappings
       \/ InitGetValueNestedPath
       \/ InitTraversals
       \/ InitCollectNamedTerms
       \/ InitMatchTerm
       \/ InitMatchPattern
       \/ InitMatchPatternComplete
       \/ InitUniqTerms
    /\ pc = "call"
    /\ matched = FALSE
    /\ map = EmptyMap
    /\ calls = <<>>
    /\ result = NoResult
    /\ heap = <<>>
    /\ returned = <<>>

MatchPatternMappings ==
    /\ pc = "call"
    /\ op = "matchPatternMappings"
    /\ LET m == match(argPattern, argQuad, EmptyMap, argOpt)
       IN  /\ matched' = m.ok
           /\ map' = m.map
           /\ result' = matchPatternMappingsReturn(m, argOpt)
    /\ pc' = "done"
    /\ UNCHANGED <<args, heap, returned, calls>>

GetValueNestedPath ==
    /\ pc = "call"
    /\ op = "getValueNestedPath"
    /\ result' = getValueNestedPath(argTerm, argKeys)
    /\ pc' = "done"
    /\ UNCHANGED <<args, heap, returned, matched, map, calls>>

ReturnValue(v) == [type |-> "value", value |-> v]

GetTerms ==
    /\ pc = "call"
    /\ op = "getTerms"
    /\ result' = ReturnValue(getTerms(argQuad, argFlag))
    /\ pc' = "done"
    /\ UNCHANGED <<args, heap, returned, matched, map, calls>>

GetTermsNested ==
    /\ pc = "call"
    /\ op = "getTermsNested"
    /\ result' = ReturnValue(getTermsNested(argQuad, argFlag))
    /\ pc' = "done"
    /\ UNCHANGED <<args, heap, returned, matched, map, calls>>

GetNamedTerms ==
    /\ pc = "call"
    /\ op = "getNamedTerms"
    /\ result' = ReturnValue(getNamedTerms(argQuad))
    /\ pc' = "done"
    /\ UNCHANGED <<args, heap, returned, matched, map, calls>>

\* calls: the position names defaultCb was invoked with
CollectNamedTerms ==
    /\ pc = "call"
    /\ op = "collectNamedTerms"
    /\ LET r == collectNamedTerms(argEntries, argCb, argFactory)
       IN  /\ result' = ReturnValue(r.value)
           /\ calls' = r.calls
    /\ pc' = "done"
    /\ UNCHANGED <<args, heap, returned, matched, map>>

\* forEachTermsNested returns nothing; calls: the invocations of cb
ForEachTermsNested ==
    /\ pc = "call"
    /\ op = "forEachTermsNested"
    /\ LET r == forEachTermsNested(argQuad, <<>>)
       IN  /\ result' = ReturnValue("undefined")
           /\ calls' = r
    /\ pc' = "done"
    /\ UNCHANGED <<args, heap, returned, matched, map>>

FilterTermsNested ==
    /\ pc = "call"
    /\ op = "filterTermsNested"
    /\ result' = ReturnValue(filterTermsNested(argQuad, argCb, <<>>))
    /\ pc' = "done"
    /\ UNCHANGED <<args, heap, returned, matched, map, calls>>

FilterQuadTermNamesNested ==
    /\ pc = "call"
    /\ op = "filterQuadTermNamesNested"
    /\ result' = ReturnValue(filterQuadTermNamesNested(argQuad, argCb, <<>>))
    /\ pc' = "done"
    /\ UNCHANGED <<args, heap, returned, matched, map, calls>>

\* calls: the invocations of mapper
MapTermsNested ==
    /\ pc = "call"
    /\ op = "mapTermsNested"
    /\ LET r == mapTermsNested(argQuad, argCb, argFactory, <<>>)
       IN  /\ result' = ReturnValue(r.value)
           /\ calls' = r.calls
    /\ pc' = "done"
    /\ UNCHANGED <<args, heap, returned, matched, map>>

ReduceTermsNested ==
    /\ pc = "call"
    /\ op = "reduceTermsNested"
    /\ result' = ReturnValue(reduceTermsNested(argQuad, argCb, argInit, <<>>))
    /\ pc' = "done"
    /\ UNCHANGED <<args, heap, returned, matched, map, calls>>

EveryTermsNested ==
    /\ pc = "call"
    /\ op = "everyTermsNested"
    /\ result' = ReturnValue(everyTermsNested(argQuad, argCb, <<>>))
    /\ pc' = "done"
    /\ UNCHANGED <<args, heap, returned, matched, map, calls>>

SomeTermsNested ==
    /\ pc = "call"
    /\ op = "someTermsNested"
    /\ result' = ReturnValue(someTermsNested(argQuad, argCb, <<>>))
    /\ pc' = "done"
    /\ UNCHANGED <<args, heap, returned, matched, map, calls>>

EveryTerms ==
    /\ pc = "call"
    /\ op = "everyTerms"
    /\ LET r == everyTerms(argQuad, argCb)
       IN  /\ result' = ReturnValue(r.value)
           /\ calls' = r.calls
    /\ pc' = "done"
    /\ UNCHANGED <<args, heap, returned, matched, map>>

SomeTerms ==
    /\ pc = "call"
    /\ op = "someTerms"
    /\ LET r == someTerms(argQuad, argCb)
       IN  /\ result' = ReturnValue(r.value)
           /\ calls' = r.calls
    /\ pc' = "done"
    /\ UNCHANGED <<args, heap, returned, matched, map>>

MatchTerm ==
    /\ pc = "call"
    /\ op = "matchTerm"
    /\ result' = ReturnValue(matchTerm(argTerm, argTerms[1]))
    /\ pc' = "done"
    /\ UNCHANGED <<args, heap, returned, matched, map, calls>>

MatchPattern ==
    /\ pc = "call"
    /\ op = "matchPattern"
    /\ result' = ReturnValue(matchPattern(argQuad, argTerms[1], argTerms[2],
                                          argTerms[3], argTerms[4]))
    /\ pc' = "done"
    /\ UNCHANGED <<args, heap, returned, matched, map, calls>>

MatchPatternComplete ==
    /\ pc = "call"
    /\ op = "matchPatternComplete"
    /\ result' = ReturnValue(matchPatternComplete(argQuad, argPattern))
    /\ pc' = "done"
    /\ UNCHANGED <<args, heap, returned, matched, map, calls>>

UniqTerms ==
    /\ pc = "call"
    /\ op = "uniqTerms"
    /\ result' = ReturnValue(uniqTerms(argTerms))
    /\ pc' = "done"
    /\ UNCHANGED <<args, heap, returned, matched, map, calls>>

Next ==
    \/ MatchPatternMappings
    \/ GetValueNestedPath
    \/ GetTerms
    \/ GetTermsNested
    \/ GetNamedTerms
    \/ CollectNamedTerms
    \/ ForEachTermsNested
    \/ FilterTermsNested
    \/ FilterQuadTermNamesNested
    \/ MapTermsNested
    \/ ReduceTermsNested
    \/ EveryTermsNested
    \/ SomeTermsNested
    \/ EveryTerms
    \/ SomeTerms
    \/ MatchTerm
    \/ MatchPattern
    \/ MatchPatternComplete
    \/ UniqTerms

Spec == Init /\ [][Next]_vars

(***************************************************************************)
(* Sequences of calls of matchPatternMappings.  A call draws its           *)
(* arguments, makes its map, matches and returns; the maps made stay in    *)
(* heap, where whoever was handed one still sees it.                       *)
(***************************************************************************)
\* a pattern with one variable at two positions, and two quads it matches
CallQuads ==
    {quad(variable(Names[1]), namedNode(Names[1]), variable(Names[1]), defaultGraph),
     quad(namedNode(Names[1]), namedNode(Names[1]), namedNode(Names[1]), defaultGraph),
     quad(literal(Names[2]), namedNode(Names[1]), literal(Names[2]), defaultGraph)}

CallOptions == {<<>>, [returnMappings |-> TRUE]}

InitCalls ==
    /\ op = "matchPatternMappings"
    /\ argQuad = quadNamedNodes
    /\ NoMatcherArgs /\ NoPathArgs /\ NoTraversalArgs
    /\ pc = "call"
    /\ matched = FALSE
    /\ map = EmptyMap
    /\ calls = <<>>
    /\ result = NoResult
    /\ heap = <<>>
    /\ returned = <<>>

MatchPatternMappingsCall ==
    /\ pc = "call"
    /\ \E quad_ \in CallQuads, pattern_ \in CallQuads, opt \in CallOptions :
          LET id == NewMap(heap)
              m == match(pattern_, quad_, MapAt(heap, id), opt)
              r == matchPatternMappingsReturn(m, opt)
          IN  /\ argQuad' = quad_
              /\ argPattern' = pattern_
              /\ argOpt' = opt
              /\ matched' = m.ok
              /\ map' = m.map
              /\ result' = r
              /\ heap' = Store(heap, id, m.map)
              /\ returned' = Append(returned,
                                [quad |-> quad_, pattern |-> pattern_, opt |-> opt,
                                 result |-> r, object |-> id])
    /\ pc' = IF Len(returned) + 1 < MaxCalls THEN "call" ELSE "done"
    /\ UNCHANGED <<op, argTerm, argKeys, argCb, argFlag, argFactory, argInit,
                   argEntries, argTerms, calls>>

NextCalls == MatchPatternMappingsCall

SpecCalls == InitCalls /\ [][NextCalls]_vars

(***************************************************************************)
(* Vocabulary of the properties: paths, the term at a path, the leaves of  *)
(* a quad, substitution.  None of it is used by the operators above.       *)
(***************************************************************************)
KeySet == {QUAD_TERM_NAMES[i] : i \in 1..Len(QUAD_TERM_NAMES)}

Front(path) == SubSeq(path, 1, Len(path) - 1)

Last(path) == path[Len(path)]

\* path can be followed from t: every proper prefix of it leads to a Quad
RECURSIVE HasPath(_, _)
RECURSIVE TermAt(_, _)
HasPath(t, path) ==
    \/ path = <<>>
    \/ /\ HasPath(t, Front(path))
       /\ TermAt(t, Front(path)).termType = "Quad"

\* the term that path leads to from t, the last position being taken last
TermAt(t, path) ==
    IF path = <<>> THEN t ELSE TermAt(t, Front(path))[Last(path)]

\* the paths of the leaves (the terms that are no Quad) of quad q
RECURSIVE LeafPaths(_)
LeafPaths(q) ==
    UNION {IF q[k].termType = "Quad"
           THEN {<<k>> \o path : path \in LeafPaths(q[k])}
           ELSE {<<k>>} : k \in KeySet}

\* the paths of the Variable leaves of quad q
VarPaths(q) == {path \in LeafPaths(q) : TermAt(q, path).termType = "Variable"}

\* the variable names of quad q
VarNamesOf(q) == {TermAt(q, path).value : path \in VarPaths(q)}

\* the paths at which the variable named v occurs in quad q
OccurrencesOf(q, v) == {path \in VarPaths(q) : TermAt(q, path).value = v}

\* the terms below t, at any depth
RECURSIVE SubTerms(_)
SubTerms(t) ==
    IF t.termType # "Quad" THEN {}
    ELSE UNION {{t[k]} \cup SubTerms(t[k]) : k \in KeySet}

\* t with every Variable leaf replaced by the term sigma assigns to its name
RECURSIVE Substitute(_, _)
Substitute(t, sigma) ==
    CASE t.termType = "Variable" -> sigma[t.value]
      [] t.termType = "Quad" ->
            quad(Substitute(t.subject, sigma), Substitute(t.predicate, sigma),
                 Substitute(t.object, sigma), Substitute(t.graph, sigma))
      [] OTHER -> t

\* an assignment of terms to the variable names of pattern_ turns it into
\* candidate (the terms assigned are then terms of candidate)
ExistsAssignment(pattern_, candidate) ==
    \E sigma \in [VarNamesOf(pattern_) -> SubTerms(candidate)] :
        Substitute(pattern_, sigma) = candidate

\* pattern_ and candidate agree wherever pattern_ has no Variable
RECURSIVE AgreeOutsideVariables(_, _)
AgreeOutsideVariables(pattern_, candidate) ==
    \A k \in KeySet :
        CASE pattern_[k].termType = "Variable" -> TRUE
          [] pattern_[k].termType = "Quad" ->
                /\ candidate[k].termType = "Quad"
                /\ AgreeOutsideVariables(pattern_[k], candidate[k])
          [] OTHER -> pattern_[k] = candidate[k]

DefaultOptions(o) == ~Truthy(o, "skipVarMapping") /\ ~Truthy(o, "returnMappings")

MatchDone == pc = "done" /\ op = "matchPatternMappings"

\* the call reported a match: it returned true or the map
ReportsMatch == result.type = "object" \/ (result.type = "boolean" /\ result.bool)

ConflictingOccurrences(pattern_, candidate) ==
    \E p1, p2 \in VarPaths(pattern_) :
        /\ p1 # p2
        /\ TermAt(pattern_, p1).value = TermAt(pattern_, p2).value
        /\ Len(p1) = Len(p2) \/ Len(p1) = 1
        /\ HasPath(candidate, p1) /\ HasPath(candidate, p2)
        /\ TermAt(candidate, p1) # TermAt(candidate, p2)

\* all occurrences of each name face one term of the candidate
ConsistentOccurrences(pattern_, candidate) ==
    \A p1, p2 \in VarPaths(pattern_) :
        TermAt(pattern_, p1).value = TermAt(pattern_, p2).value
            => TermAt(candidate, p1) = TermAt(candidate, p2)

Skipped(candidateTerm) ==
    Truthy(argOpt, "skipVarMapping") /\ candidateTerm.termType = "Variable"

(***************************************************************************)
(* C3, as the specification states it: for every combination of            *)
(* skipVarMapping and returnMappings, whenever a match is reported every   *)
(* variable name is bound to at most one term and all occurrences of one   *)
(* variable name face equal candidate terms.  The code does not keep the   *)
(* second half when skipVarMapping is set.                                 *)
(***************************************************************************)
C3_Original ==
    (MatchDone /\ ReportsMatch) => ConsistentOccurrences(argPattern, argQuad)

(***************************************************************************)
(* C3, amended: whenever a match is reported, under any options, the map   *)
(* binds only variable names of the pattern, and every occurrence of a     *)
(* bound name faces the term the name is bound to; all occurrences of one  *)
(* name face equal candidate terms, except that with skipVarMapping set    *)
(* the occurrences that face a Variable of the candidate are free.         *)
(***************************************************************************)
C3_ConsistentUnlessSkipped ==
    (MatchDone /\ ReportsMatch) =>
        /\ DOMAIN map \subseteq VarNamesOf(argPattern)
        /\ \A path \in VarPaths(argPattern) :
              LET v == TermAt(argPattern, path).value
                  t == TermAt(argQuad, path)
              IN  \/ Skipped(t)
                  \/ v \in DOMAIN map /\ map[v] = t
        /\ \A p1, p2 \in VarPaths(argPattern) :
              TermAt(argPattern, p1).value = TermAt(argPattern, p2).value
                  => \/ TermAt(argQuad, p1) = TermAt(argQuad, p2)
                     \/ Skipped(TermAt(argQuad, p1))
                     \/ Skipped(TermAt(argQuad, p2))

\* a match with skipVarMapping of a pattern that repeats a variable, one
\* occurrence facing a Variable and two facing the same other term
C3_Witness ==
    /\ MatchDone /\ ReportsMatch /\ Truthy(argOpt, "skipVarMapping")
    /\ \E p1, p2, p3 \in VarPaths(argPattern) :
          /\ p1 # p2 /\ p1 # p3 /\ p2 # p3
          /\ TermAt(argPattern, p1) = TermAt(argPattern, p2)
          /\ TermAt(argPattern, p1) = TermAt(argPattern, p3)
          /\ TermAt(argQuad, p1).termType = "Variable"
          /\ TermAt(argQuad, p2).termType # "Variable"
          /\ TermAt(argQuad, p2) = TermAt(argQuad, p3)

AllVariables(q) == \A k \in KeySet : q[k].termType = "Variable"

DistinctVariables(q) ==
    /\ AllVariables(q)
    /\ \A k1, k2 \in KeySet : k1 # k2 => q[k1].value # q[k2].value

C6_ResultShape ==
    MatchDone =>
        /\ ~matched => result = ReturnBoolean(FALSE)
        /\ (matched /\ Truthy(argOpt, "returnMappings"))
              => result.type = "object" /\ result.map = map
        /\ (matched /\ ~Truthy(argOpt, "returnMappings"))
              => result = ReturnBoolean(TRUE)

\* no match while returnMappings is set
C6_Witness ==
    /\ MatchDone
    /\ Truthy(argOpt, "returnMappings")
    /\ ~matched
    /\ map # EmptyMap
    /\ result = ReturnBoolean(FALSE)

(***************************************************************************)
(* C7: with skipVarMapping set, a Variable of the pattern that faces a     *)
(* Variable of the candidate matches there and no binding is recorded or   *)
(* checked; so the map of a successful call with skipVarMapping never maps *)
(* a name to a term of type Variable.                                      *)
(***************************************************************************)
C7_SkipVarMapping ==
    (MatchDone /\ Truthy(argOpt, "skipVarMapping")) =>
        /\ \A v \in DOMAIN map : map[v].termType # "Variable"
        /\ result.type = "object"
              => \A v \in DOMAIN result.map : result.map[v].termType # "Variable"
        /\ (/\ AgreeOutsideVariables(argPattern, argQuad)
            /\ \A path \in VarPaths(argPattern) :
                  TermAt(argQuad, path).termType = "Variable")
           => ReportsMatch /\ map = EmptyMap
        /\ \A path \in VarPaths(argPattern) :
              (HasPath(argQuad, path) /\ TermAt(argQuad, path).termType = "Variable")
                 => matchVariable(TermAt(argPattern, path), TermAt(argQuad, path),
                                  map, argOpt) = [ok |-> TRUE, map |-> map]

\* with skipVarMapping a repeated variable has faced two different variables
\* of the candidate, another variable is bound, and the map is returned
C7_Witness ==
    /\ MatchDone /\ Truthy(argOpt, "skipVarMapping")
    /\ result.type = "object"
    /\ result.map # EmptyMap
    /\ \E p1, p2 \in VarPaths(argPattern) :
          /\ TermAt(argPattern, p1) = TermAt(argPattern, p2)
          /\ TermAt(argQuad, p1).termType = "Variable"
          /\ TermAt(argQuad, p2).termType = "Variable"
          /\ TermAt(argQuad, p1) # TermAt(argQuad, p2)

\* the first position binds its variable to the quoted quad it faces,
\* whatever follows; and at any position the callback, given a map without
\* the variable, succeeds and adds the quoted quad under its name
BoundToQuadAtSubject ==
    /\ (argPattern.subject.termType = "Variable" /\ argQuad.subject.termType = "Quad")
          => /\ argPattern.subject.value \in DOMAIN map
             /\ map[argPattern.subject.value] = argQuad.subject
    /\ \A path \in VarPaths(argPattern) :
          (HasPath(argQuad, path) /\ TermAt(argQuad, path).termType = "Quad")
             => checker(TermAt(argPattern, path), TermAt(argQuad, path), EmptyMap, argOpt)
                   = [ok |-> TRUE,
                      map |-> TermAt(argPattern, path).value :> TermAt(argQuad, path)]

QuadPaths(q) ==
    UNION {{SubSeq(path, 1, n) : n \in 1..(Len(path) - 1)} : path \in LeafPaths(q)}

(***************************************************************************)
(* C9: a position of the pattern that holds a Quad matches only if the     *)
(* candidate holds a Quad there and the two quoted quads unify under the   *)
(* binding map of the enclosing call; a Quad of the pattern facing a term  *)
(* that is no Quad (a Variable included) makes the whole match fail.       *)
(***************************************************************************)
C9_QuadPosition ==
    MatchDone =>
        /\ (\E path \in QuadPaths(argPattern) :
               /\ HasPath(argQuad, path)
               /\ TermAt(argQuad, path).termType # "Quad")
              => ~matched /\ result = ReturnBoolean(FALSE)
        /\ ReportsMatch =>
              \A path \in QuadPaths(argPattern) :
                  /\ HasPath(argQuad, path)
                  /\ TermAt(argQuad, path).termType = "Quad"
                  /\ match(TermAt(argPattern, path), TermAt(argQuad, path), map, argOpt)
                        = [ok |-> TRUE, map |-> map]
                  /\ \A leaf \in VarPaths(TermAt(argPattern, path)) :
                        \/ Skipped(TermAt(TermAt(argQuad, path), leaf))
                        \/ TermAt(TermAt(argPattern, path), leaf).value \in DOMAIN map

\* a match in which a quoted quad of the pattern has bound a variable that
\* occurs at the top level too
C9_Witness ==
    /\ MatchDone /\ ReportsMatch
    /\ \E k \in KeySet :
          /\ argPattern[k].termType = "Quad"
          /\ \E path \in VarPaths(argPattern[k]) :
                /\ TermAt(argPattern[k], path).value \in DOMAIN map
                /\ \E k2 \in KeySet : argPattern[k2] = TermAt(argPattern[k], path)

PathDone == pc = "done" /\ op = "getValueNestedPath"

(***************************************************************************)
(* C10: getValueNestedPath(term, path) returns term itself for the empty   *)
(* path, for every term, Quad or not; for a path every proper prefix of    *)
(* which leads to a Quad it returns the term reached by following the      *)
(* named positions one after another from the root.                        *)
(***************************************************************************)
C10_PathLookup ==
    PathDone =>
        /\ argKeys = <<>> => result = ReturnTerm(argTerm)
        /\ HasPath(argTerm, argKeys) => result = ReturnTerm(TermAt(argTerm, argKeys))

\* a path of three positions followed through two quoted quads to a leaf
C10_Witness ==
    /\ PathDone
    /\ Len(argKeys) = 3
    /\ HasPath(argTerm, argKeys)
    /\ result.type = "term"
    /\ result.term.termType = "Literal"

\* the prefix of n elements of the path can be followed and leads to a term
\* that is no Quad, while the path goes on
StopsAfter(n) ==
    /\ n < Len(argKeys)
    /\ HasPath(argTerm, SubSeq(argKeys, 1, n))
    /\ TermAt(argTerm, SubSeq(argKeys, 1, n)).termType # "Quad"

(***************************************************************************)
(* C11: getValueNestedPath raises an error, and returns no term, exactly   *)
(* when a proper prefix of the path leads to a term that is no Quad; the   *)
(* error names the path element right after that prefix and the termType   *)
(* of the term that was reached.                                           *)
(***************************************************************************)
C11_PathError ==
    PathDone =>
        /\ result.type \in {"term", "error"}
        /\ result.type = "error" <=> \E n \in 0..Len(argKeys) : StopsAfter(n)
        /\ \A n \in 0..Len(argKeys) :
              StopsAfter(n) =>
                 result = [type |-> "error", key |-> argKeys[n + 1],
                           termType |-> TermAt(argTerm, SubSeq(argKeys, 1, n)).termType]

\* a path of three elements that stops at a leaf after the first one, the
\* two elements that are left being different
C11_Witness ==
    /\ PathDone
    /\ Len(argKeys) = 3
    /\ StopsAfter(1)
    /\ argKeys[2] # argKeys[3]
    /\ result.type = "error"
    /\ result.termType = "Literal"

(***************************************************************************)
(* Vocabulary of the properties of the traversals: the order of the leaves *)
(* of a quad, stated on paths.                                             *)
(***************************************************************************)
\* the place of a position name in a quad
Place(k) == CHOOSE i \in 1..Len(QUAD_TERM_NAMES) : QUAD_TERM_NAMES[i] = k

\* path p1 comes before path p2: at the first element in which they differ,
\* p1 has the earlier position, or p1 is a proper prefix of p2
Before(p1, p2) ==
    \/ \E n \in 1..Len(p1) :
          /\ n <= Len(p2)
          /\ SubSeq(p1, 1, n - 1) = SubSeq(p2, 1, n - 1)
          /\ Place(p1[n]) < Place(p2[n])
    \/ Len(p1) < Len(p2) /\ p1 = SubSeq(p2, 1, Len(p1))

\* the paths of set S, earliest first
RECURSIVE InOrder(_)
InOrder(S) ==
    IF S = {} THEN <<>>
    ELSE LET first == CHOOSE p \in S : \A other \in S \ {p} : Before(p, other)
         IN  <<first>> \o InOrder(S \ {first})

\* the paths of the leaves of quad q in depth-first order, a quoted quad
\* being finished before the position after it
LeafOrder(q) == InOrder(LeafPaths(q))

\* the leaves of q with their paths, in that order
LeafCalls(q) ==
    LET order == LeafOrder(q)
    IN  [i \in 1..Len(order) |-> Call(TermAt(q, order[i]), order[i])]

\* the number of quoted quads a path passes through; the root is none
NestingDepth(q, path) ==
    Cardinality({n \in 1..(Len(path) - 1) : TermAt(q, SubSeq(path, 1, n)).termType = "Quad"})

Done(name) == pc = "done" /\ op = name

(***************************************************************************)
(* C12: forEachTermsNested invokes the callback exactly once for every     *)
(* term reachable from the root quad that is no Quad, and never for a      *)
(* Quad, depth-first with the positions taken as subject, predicate,       *)
(* object, graph and all leaves of a quoted quad reported before the next  *)
(* position of the enclosing quad; the keys handed over with a leaf are    *)
(* the position names from the root to the leaf.                           *)
(***************************************************************************)
C12_ForEachLeaf ==
    Done("forEachTermsNested") =>
        /\ Len(calls) = Cardinality(LeafPaths(argQuad))
        /\ {calls[i].keys : i \in DOMAIN calls} = LeafPaths(argQuad)
        /\ \A i \in DOMAIN calls :
              /\ calls[i].value.termType # "Quad"
              /\ calls[i].value = TermAt(argQuad, calls[i].keys)
              /\ \A j \in DOMAIN calls : i < j => Before(calls[i].keys, calls[j].keys)
        /\ calls = LeafCalls(argQuad)

\* a leaf two quoted quads deep has been reported right before a leaf of the
\* root quad
C12_Witness ==
    /\ Done("forEachTermsNested")
    /\ \E i \in DOMAIN calls :
          /\ i < Len(calls)
          /\ Len(calls[i].keys) = 3
          /\ calls[i].keys[1] = "object"
          /\ calls[i + 1].keys = <<"graph">>

\* quad t was built by the data factory that was given
BuiltBy(t, dataFactory) == ("factory" \in DOMAIN t) <=> (dataFactory = "custom")

(***************************************************************************)
(* C13: mapTermsNested returns a new quad in which the leaf at every path  *)
(* P of the input is replaced by mapper(leaf, P) and every position of the *)
(* input that holds a Quad holds a Quad again, rebuilt in the same way     *)
(* with the same data factory; the mapper is never called with a Quad; and *)
(* for the identity mapper the result is structurally equal to the input.  *)
(***************************************************************************)
C13_MapLeaves ==
    Done("mapTermsNested") =>
        /\ result.value.termType = "Quad"
        /\ BuiltBy(result.value, argFactory)
        /\ LeafPaths(result.value) = LeafPaths(argQuad)
        /\ \A P \in LeafPaths(argQuad) :
              TermAt(result.value, P) = CallMapper(argCb, TermAt(argQuad, P), P)
        /\ \A P \in QuadPaths(argQuad) :
              /\ TermAt(result.value, P).termType = "Quad"
              /\ BuiltBy(TermAt(result.value, P), argFactory)
        /\ \A i \in DOMAIN calls : calls[i].value.termType # "Quad"
        /\ calls = LeafCalls(argQuad)
        /\ argCb = "identity" =>
              /\ equals(result.value, argQuad)
              /\ equals(argQuad, result.value)
              /\ argFactory = "undefined" => result.value = argQuad

\* a quad with a quoted quad two levels deep has been mapped with a custom
\* data factory by the mapper that looks at the keys, which has replaced a
\* leaf of the innermost quad and kept another
C13_Witness ==
    /\ Done("mapTermsNested")
    /\ argFactory = "custom"
    /\ argCb = "variableForSubjectAndObject"
    /\ \E P1, P2 \in LeafPaths(argQuad) :
          /\ Len(P1) = 3 /\ Len(P2) = 3
          /\ TermAt(result.value, P1) # TermAt(argQuad, P1)
          /\ TermAt(result.value, P2) = TermAt(argQuad, P2)

\* the paths of order[i], order[i + 1], ... whose leaf in q the filter accepts
RECURSIVE AcceptedFrom(_, _, _, _)
AcceptedFrom(q, filter, order, i) ==
    IF i > Len(order) THEN <<>>
    ELSE (IF CallFilter(filter, TermAt(q, order[i]), order[i]) THEN <<order[i]>> ELSE <<>>)
         \o AcceptedFrom(q, filter, order, i + 1)

\* the paths of the leaves of q the filter accepts, in traversal order
AcceptedPaths(q, filter) == AcceptedFrom(q, filter, LeafOrder(q), 1)

(***************************************************************************)
(* C14: for one quad and one predicate, filterTermsNested returns exactly  *)
(* the leaves, and filterQuadTermNamesNested exactly the paths, for which  *)
(* predicate(leaf, path) is true, both in traversal order; the two lists   *)
(* are equally long, the i-th path is one longer than the nesting depth of *)
(* the i-th leaf, and it leads to the i-th term.                           *)
(***************************************************************************)
C14_FilterLeaves ==
    (Done("filterTermsNested") \/ Done("filterQuadTermNamesNested")) =>
        LET terms == filterTermsNested(argQuad, argCb, <<>>)
            names == filterQuadTermNamesNested(argQuad, argCb, <<>>)
        IN  /\ Done("filterTermsNested") => result.value = terms
            /\ Done("filterQuadTermNamesNested") => result.value = names
            /\ names = AcceptedPaths(argQuad, argCb)
            /\ Len(terms) = Len(names)
            /\ \A i \in DOMAIN names :
                  /\ HasPath(argQuad, names[i])
                  /\ TermAt(argQuad, names[i]) = terms[i]
                  /\ getValueNestedPath(argQuad, names[i]) = ReturnTerm(terms[i])
                  /\ Len(names[i]) = NestingDepth(argQuad, names[i]) + 1
                  /\ CallFilter(argCb, terms[i], names[i])
            /\ \A P \in LeafPaths(argQuad) :
                  CallFilter(argCb, TermAt(argQuad, P), P)
                     => \E i \in DOMAIN names : names[i] = P

\* the filter that looks at the keys has accepted the graph of a quoted quad
\* and refused its object; the terms are returned
C14_Witness ==
    /\ Done("filterTermsNested")
    /\ argCb = "lastKeyIsGraph"
    /\ \E P \in QuadPaths(argQuad) :
          /\ Len(P) = 2
          /\ TermAt(argQuad, P).object.termType = "NamedNode"
          /\ TermAt(argQuad, P).graph.termType = "NamedNode"
    /\ Len(result.value) = 3

\* the left fold of the reducer over the invocations visited[i], visited[i + 1], ...
RECURSIVE FoldLeft(_, _, _, _)
FoldLeft(reducer, value, visited, i) ==
    IF i > Len(visited) THEN value
    ELSE FoldLeft(reducer,
                  CallReducer(reducer, value, visited[i].value, visited[i].keys),
                  visited, i + 1)

(***************************************************************************)
(* C15: reduceTermsNested(Q, f, init) is the left fold of f over the       *)
(* (leaf, path) pairs that forEachTermsNested(Q) visits, in that order;    *)
(* everyTermsNested(Q, c) is true exactly when c holds for every such      *)
(* pair, and someTermsNested(Q, c) exactly when c holds for one at least.  *)
(***************************************************************************)
C15_FoldEverySome ==
    LET visited == forEachTermsNested(argQuad, <<>>)
    IN  /\ Done("reduceTermsNested") =>
              result.value = FoldLeft(argCb, argInit, visited, 1)
        /\ Done("everyTermsNested") =>
              result.value = (\A i \in DOMAIN visited :
                                 CallFilter(argCb, visited[i].value, visited[i].keys))
        /\ Done("someTermsNested") =>
              result.value = (\E i \in DOMAIN visited :
                                 CallFilter(argCb, visited[i].value, visited[i].keys))

\* a quad with quoted quads in its subject, two levels deep, has been
\* reduced from an initial value that is not empty by the reducer that puts
\* each leaf in front
C15_Witness ==
    /\ Done("reduceTermsNested")
    /\ argCb = "prepend"
    /\ argInit # <<>>
    /\ argQuad.subject.termType = "Quad"
    /\ argQuad.subject.subject.termType = "Quad"
    /\ Len(result.value) = 11
    /\ result.value[11] = argInit[1]
    /\ result.value[1].keys = <<"graph">>

\* the values of a sequence of invocations
ValuesOf(visited) == [i \in 1..Len(visited) |-> visited[i].value]

\* a DefaultGraph in the graph position of the root quad or of a quoted quad
DefaultGraphOfQuad(c) ==
    c.value.termType = "DefaultGraph" /\ c.keys[Len(c.keys)] = "graph"

KeptWhenIgnored(c) == ~DefaultGraphOfQuad(c)

(***************************************************************************)
(* C16: getTermsNested(Q) without the flag returns exactly the leaves that *)
(* forEachTermsNested(Q) visits, in their order, one entry per leaf and no *)
(* Quad; with ignoreDefaultGraph set it returns that sequence without the  *)
(* leaves that are a DefaultGraph in the graph position of the root quad   *)
(* or of a quoted quad, and without no other.                              *)
(***************************************************************************)
C16_AllLeaves ==
    Done("getTermsNested") =>
        LET visited == forEachTermsNested(argQuad, <<>>)
        IN  /\ \A i \in DOMAIN result.value : result.value[i].termType # "Quad"
            /\ argFlag # "true" =>
                  /\ result.value = ValuesOf(visited)
                  /\ Len(result.value) = Cardinality(LeafPaths(argQuad))
            /\ argFlag = "true" =>
                  result.value = ValuesOf(SelectSeq(visited, KeptWhenIgnored))

\* with the flag set, the default graphs of the root quad and of a quoted
\* quad have been left out and a DefaultGraph in a subject position has
\* been kept
C16_Witness ==
    /\ Done("getTermsNested")
    /\ argFlag = "true"
    /\ argQuad.graph.termType = "DefaultGraph"
    /\ \E k \in KeySet :
          /\ argQuad[k].termType = "Quad"
          /\ argQuad[k].graph.termType = "DefaultGraph"
          /\ argQuad[k].subject.termType = "DefaultGraph"
    /\ Len(result.value) = Cardinality(LeafPaths(argQuad)) - 2
    /\ \E i \in DOMAIN result.value : result.value[i].termType = "DefaultGraph"

(***************************************************************************)
(* C17: round trip.  For every quad Q, whose four positions are present,   *)
(* collectNamedTerms(getNamedTerms(Q)) is structurally equal to Q, with or *)
(* without a default callback and with or without a custom data factory.   *)
(***************************************************************************)
C17_RoundTrip ==
    /\ (Done("collectNamedTerms") /\ argEntries = getNamedTerms(argQuad)) =>
          /\ result.value.termType = "Quad"
          /\ equals(result.value, argQuad)
          /\ equals(argQuad, result.value)
          /\ BuiltBy(result.value, argFactory)
          /\ argFactory = "undefined" => result.value = argQuad
          /\ calls = <<>>
    /\ Done("getNamedTerms") =>
          \A defaultCb \in DefaultCbs, dataFactory \in DataFactories :
              equals(collectNamedTerms(result.value, defaultCb, dataFactory).value, argQuad)

\* the named terms of a quad with a quoted quad have been collected with a
\* default callback and a custom data factory
C17_Witness ==
    /\ Done("collectNamedTerms")
    /\ argEntries = getNamedTerms(argQuad)
    /\ argCb = "variable"
    /\ argFactory = "custom"
    /\ argQuad.object.termType = "Quad"
    /\ argQuad.graph.termType = "DefaultGraph"
    /\ equals(result.value, argQuad)

\* the position names that have an entry in namedTerms
PresentKeys(namedTerms) == {namedTerms[i].key : i \in DOMAIN namedTerms}

\* the term supplied for position k: that of its entry, the last one when
\* there are two
Supplied(namedTerms, k) ==
    LET last == CHOOSE i \in DOMAIN namedTerms :
                   /\ namedTerms[i].key = k
                   /\ \A j \in DOMAIN namedTerms : namedTerms[j].key = k => j <= i
    IN  namedTerms[last].value

MissingKey(k) == k \notin PresentKeys(argEntries)

StillMissing(k) ==
    /\ MissingKey(k)
    /\ argCb \in {"undefined", "null"} \/ CallDefaultCb(argCb, k) = NoTerm

(***************************************************************************)
(* C19, as the specification states it: collectNamedTerms raises an error  *)
(* and returns no quad whenever one of the four positions is still without *)
(* a term after the default callback, if any, has been applied, also when  *)
(* the callback returns no term for a missing graph.  The code raises no   *)
(* error: it hands the positions to the data factory as they are.          *)
(***************************************************************************)
C19_Original ==
    Done("collectNamedTerms") =>
        ((\E k \in KeySet : StillMissing(k)) => result.type = "error")

(***************************************************************************)
(* C20: getTerms(quad, ignoreDefaultGraph) returns subject, predicate,     *)
(* object and graph in this order; it returns the three terms subject,     *)
(* predicate, object if and only if ignoreDefaultGraph is true and the     *)
(* graph is a DefaultGraph; with another graph all four are returned       *)
(* whatever the flag is.                                                   *)
(***************************************************************************)
C20_GetTerms ==
    Done("getTerms") =>
        LET four == <<argQuad.subject, argQuad.predicate, argQuad.object, argQuad.graph>>
            three == <<argQuad.subject, argQuad.predicate, argQuad.object>>
            omit == argFlag = "true" /\ argQuad.graph.termType = "DefaultGraph"
        IN  /\ result.value \in {three, four}
            /\ result.value = three <=> omit
            /\ argQuad.graph.termType # "DefaultGraph" => result.value = four

\* the default graph of a quad with a quoted quad has been left out
C20_Witness ==
    /\ Done("getTerms")
    /\ argFlag = "true"
    /\ argQuad.graph.termType = "DefaultGraph"
    /\ argQuad.subject.termType = "Quad"
    /\ result.value = <<argQuad.subject, argQuad.predicate, argQuad.object>>


\* termB matches termA: it is absent or a Variable, or both are Quads that
\* agree wherever termB has no Variable, or the two are the same term
TermMatches(termA, termB) ==
    \/ termB = NoTerm
    \/ termB.termType = "Variable"
    \/ /\ termB.termType = "Quad"
       /\ termA.termType = "Quad"
       /\ AgreeOutsideVariables(termB, termA)
    \/ termB = termA

(***************************************************************************)
(* C21: matchTerm(termA, termB) is true exactly when termB is absent, or   *)
(* is a Variable, or both are Quads and termB matches termA position by    *)
(* position (matchPatternComplete), or termB equals termA; matchPattern is *)
(* the conjunction of matchTerm over the four positions, an argument that  *)
(* is not given being a wildcard.                                          *)
(***************************************************************************)
C21_LegacyMatchers ==
    /\ Done("matchTerm") =>
          result = ReturnValue(TermMatches(argTerm, argTerms[1]))
    /\ Done("matchPattern") =>
          result = ReturnValue(\A i \in 1..Len(QUAD_TERM_NAMES) :
                                  TermMatches(argQuad[QUAD_TERM_NAMES[i]], argTerms[i]))

\* matchPattern returned true for a subject that is not given, an object
\* that is a Variable facing another term, and a graph that is given
C21_Witness ==
    /\ Done("matchPattern")
    /\ result = ReturnValue(TRUE)
    /\ argTerms[1] = NoTerm
    /\ argTerms[3].termType = "Variable"
    /\ argTerms[3] # argQuad.object
    /\ argTerms[4] = argQuad.graph

\* matchTerm returned true for two Quads that are not equal
C21_WitnessQuads ==
    /\ Done("matchTerm")
    /\ result = ReturnValue(TRUE)
    /\ argTerm.termType = "Quad"
    /\ argTerms[1].termType = "Quad"
    /\ argTerms[1] # argTerm


\* what matchPatternMappings returns for the same quad and pattern, opt not
\* given
MappingsMatch(quad_, pattern_) == matchPatternMappings(quad_, pattern_, <<>>).bool

\* pattern_ has two occurrences of one variable name, the second one at
\* nesting depth depth, that face different terms of candidate
RepeatedVariableDiffers(pattern_, candidate, depth) ==
    \E p1, p2 \in VarPaths(pattern_) :
        /\ p1 # p2
        /\ Len(p2) = depth
        /\ TermAt(pattern_, p1).value = TermAt(pattern_, p2).value
        /\ HasPath(candidate, p1) /\ HasPath(candidate, p2)
        /\ TermAt(candidate, p1) # TermAt(candidate, p2)

(***************************************************************************)
(* C22: matchPatternComplete enforces no consistency between the           *)
(* occurrences of a variable.  It returns true whenever every term of the  *)
(* pattern that is no Variable matches, at every depth, also when a        *)
(* variable that occurs twice (at the top level or in a quoted quad) faces *)
(* two different terms of the quad; and its result differs from the one of *)
(* matchPatternMappings exactly in that case.                              *)
(***************************************************************************)
C22_NoConsistency ==
    Done("matchPatternComplete") =>
        /\ result = ReturnValue(AgreeOutsideVariables(argPattern, argQuad))
        /\ (result.value # MappingsMatch(argQuad, argPattern))
              = (/\ AgreeOutsideVariables(argPattern, argQuad)
                 /\ ~ConsistentOccurrences(argPattern, argQuad))

\* matchPatternComplete returned true for a pattern one variable of which
\* occurs at the top level and in a quoted quad and faces different terms
C22_Witness ==
    /\ Done("matchPatternComplete")
    /\ result = ReturnValue(TRUE)
    /\ RepeatedVariableDiffers(argPattern, argQuad, 2)
    /\ ~MappingsMatch(argQuad, argPattern)

\* the same for two occurrences at the top level
C22_WitnessTopLevel ==
    /\ Done("matchPatternComplete")
    /\ result = ReturnValue(TRUE)
    /\ argPattern.subject.termType = "Variable"
    /\ argPattern.object = argPattern.subject
    /\ argQuad.subject # argQuad.object


\* the invocations of a checker for the four positions of q, in order
FourCalls(q) ==
    [i \in 1..Len(QUAD_TERM_NAMES) |-> Call(q[QUAD_TERM_NAMES[i]], QUAD_TERM_NAMES[i])]

\* what the checker of the call returns for position i of the quad
Checked(i) == CallChecker(argCb, argQuad[QUAD_TERM_NAMES[i]], QUAD_TERM_NAMES[i])

\* the first position for which the checker returns decisive, or the last
\* position when there is none
FirstDecisive(decisive) ==
    LET S == {i \in 1..Len(QUAD_TERM_NAMES) : Checked(i) = decisive}
    IN  IF S = {} THEN Len(QUAD_TERM_NAMES)
        ELSE CHOOSE i \in S : \A j \in S : i <= j

(***************************************************************************)
(* C23, as the specification states it: everyTerms and someTerms do not    *)
(* short-circuit; the predicate is invoked for all four positions, in the  *)
(* fixed order, on every call, also after an earlier false (everyTerms) or *)
(* true (someTerms).  The code joins the four invocations by && and ||.    *)
(***************************************************************************)
C23_Original ==
    (Done("everyTerms") \/ Done("someTerms")) => calls = FourCalls(argQuad)

(***************************************************************************)
(* C23: everyTerms and someTerms short-circuit.  The predicate is invoked  *)
(* in the fixed order subject, predicate, object, graph, up to and         *)
(* including the first position for which it returns false (everyTerms) or *)
(* true (someTerms) and for no position after it, and for all four when    *)
(* there is no such position; the result is the conjunction (everyTerms)   *)
(* or the disjunction (someTerms) of the four answers.                     *)
(***************************************************************************)
C23_ShortCircuit ==
    /\ Done("everyTerms") =>
          /\ calls = SubSeq(FourCalls(argQuad), 1, FirstDecisive(FALSE))
          /\ result = ReturnValue(\A i \in 1..Len(QUAD_TERM_NAMES) : Checked(i))
    /\ Done("someTerms") =>
          /\ calls = SubSeq(FourCalls(argQuad), 1, FirstDecisive(TRUE))
          /\ result = ReturnValue(\E i \in 1..Len(QUAD_TERM_NAMES) : Checked(i))

\* everyTerms stopped at the object: the checker was not invoked for the
\* graph, for which it would have returned true
C23_Witness ==
    /\ Done("everyTerms")
    /\ Len(calls) = 3
    /\ result = ReturnValue(FALSE)
    /\ Checked(4)

\* someTerms stopped at the predicate
C23_WitnessSome ==
    /\ Done("someTerms")
    /\ Len(calls) = 2
    /\ result = ReturnValue(TRUE)
    /\ ~Checked(4)


\* the indices of the first occurrences in terms
FirstOccurrences(terms) ==
    {i \in 1..Len(terms) : \A j \in 1..(i - 1) : terms[j] # terms[i]}

\* out is terms with every later duplicate removed
Deduplicated(terms, out) ==
    /\ \A i, j \in 1..Len(out) : i # j => out[i] # out[j]
    /\ \A i \in 1..Len(terms) : \E j \in 1..Len(out) : out[j] = terms[i]
    /\ out = Pick(terms, FirstOccurrences(terms), 1)

(***************************************************************************)
(* C24, as the specification states it: uniqTerms returns its input with   *)
(* every later duplicate removed.  No two terms of the output are          *)
(* structurally equal, every term of the input is structurally equal to a  *)
(* term of the output, the terms kept are the first occurrences in the     *)
(* order of the input (also for quads, quads that quote quads and terms of *)
(* different types with one value), and the function is idempotent.  The   *)
(* code compares the strings termToString gives and looks them up with     *)
(* `in` in an object literal.                                              *)
(***************************************************************************)
C24_Original ==
    Done("uniqTerms") =>
        /\ Deduplicated(argTerms, result.value)
        /\ uniqTerms(result.value) = result.value

\* The former uniqTerms, which compares with equals, does what C24 states.
UniqWithDeduplicates ==
    Done("uniqTerms") =>
        /\ Deduplicated(argTerms, uniqTermsWith(argTerms))
        /\ uniqTermsWith(uniqTermsWith(argTerms)) = uniqTermsWith(argTerms)

\* no string of a term of the call is a property name of Object.prototype,
\* and terms that are not equal have different strings
InjectiveStrings(terms) ==
    \A i, j \in 1..Len(terms) :
        /\ termToString(terms[i]) \notin ObjectPrototypeNames
        /\ termToString(terms[i]) = termToString(terms[j]) => terms[i] = terms[j]

\* What the code keeps of C24: it holds for the arrays of InjectiveStrings.
UniqTermsOnInjectiveStrings ==
    (Done("uniqTerms") /\ InjectiveStrings(argTerms)) =>
        /\ Deduplicated(argTerms, result.value)
        /\ uniqTerms(result.value) = result.value

\* the tests' array of five terms of one value is returned as it is
UniqTermsMixedTypes ==
    /\ Done("uniqTerms")
    /\ Len(argTerms) = MaxTerms
    /\ \A i, j \in 1..Len(argTerms) :
          i # j => /\ argTerms[i].value = argTerms[j].value
                   /\ argTerms[i].termType # argTerms[j].termType
    /\ result.value = argTerms


(***************************************************************************)
(* C25: calls are independent.  After any sequence of earlier calls of     *)
(* matchPatternMappings a call returns the result, and the binding map,    *)
(* that it returns as a first call; no binding of an earlier call is in    *)
(* its map; and a map that an earlier call returned is not altered by the  *)
(* calls after it.                                                         *)
(***************************************************************************)
C25_IndependentCalls ==
    \A i \in 1..Len(returned) :
        LET call == returned[i]
        IN  /\ call.result = matchPatternMappings(call.quad, call.pattern, call.opt)
            /\ DOMAIN heap[call.object] \subseteq VarNamesOf(call.pattern)
            /\ call.result.type = "object" => heap[call.object] = call.result.map
            /\ \A j \in 1..Len(returned) : i # j => returned[j].object # call.object

\* three calls returned; the first and the last returned maps that bind the
\* same variable to different terms, and the one between them failed
C25_Witness ==
    /\ Len(returned) = MaxCalls
    /\ returned[1].result.type = "object"
    /\ returned[2].result = ReturnBoolean(FALSE)
    /\ returned[MaxCalls].result.type = "object"
    /\ \E v \in DOMAIN returned[1].result.map :
          /\ v \in DOMAIN returned[MaxCalls].result.map
          /\ returned[1].result.map[v] # returned[MaxCalls].result.map[v]


\* the nesting depth of term t: the number of quads, one inside the other,
\* that lie below it
QuadDepth(t) ==
    IF t.termType # "Quad" THEN 0
    ELSE LET lengths == {Len(path) : path \in LeafPaths(t)}
         IN  (CHOOSE n \in lengths : \A m \in lengths : m <= n) - 1

ExhaustiveTraversals ==
    {"forEachTermsNested", "filterTermsNested", "filterQuadTermNamesNested",
     "mapTermsNested", "reduceTermsNested", "getTermsNested"}

\* the depth of the recursion of the call of the state
RecursionDepth ==
    CASE op \in ExhaustiveTraversals -> traversalDepth(argQuad)
      [] op = "everyTermsNested" -> checkedDepthFrom(TRUE, argQuad, argCb, <<>>, 1)
      [] op = "someTermsNested" -> checkedDepthFrom(FALSE, argQuad, argCb, <<>>, 1)
      [] op = "getValueNestedPath" -> getValueNestedPathDepth(argTerm, argKeys)
      [] op = "matchPatternMappings" -> matchDepthFrom(argPattern, argQuad, 1, EmptyMap, argOpt)
      [] OTHER -> 0

Recursive ==
    ExhaustiveTraversals
      \cup {"everyTermsNested", "someTermsNested", "getValueNestedPath",
            "matchPatternMappings"}

(***************************************************************************)
(* C26: every nested traversal, getValueNestedPath and                     *)
(* matchPatternMappings terminates on its finite input, that is, the call  *)
(* has returned a value or thrown its error when it is done; and the depth *)
(* of its recursion never exceeds the nesting depth of the quads handed to *)
(* it or, for getValueNestedPath, the length of the path.                  *)
(***************************************************************************)
C26_BoundedRecursion ==
    (op \in Recursive /\ pc = "done") =>
        /\ result # NoResult
        /\ IF op = "getValueNestedPath"
           THEN RecursionDepth <= Len(argKeys)
           ELSE RecursionDepth <= QuadDepth(argQuad)
        /\ op = "matchPatternMappings" => RecursionDepth <= QuadDepth(argPattern)

\* a traversal went as deep as the quad is nested
C26_Witness ==
    /\ pc = "done"
    /\ op = "reduceTermsNested"
    /\ QuadDepth(argQuad) = MaxNest
    /\ RecursionDepth = MaxNest

\* matchPatternMappings stopped above the nesting depth of its quads
C26_WitnessMatch ==
    /\ MatchDone
    /\ QuadDepth(argPattern) = MaxDepth
    /\ RecursionDepth = MaxDepth


\* the path of the first occurrence of the variable named v in quad q, in
\* the order in which the leaves of q are visited
FirstOccurrence(q, v) ==
    LET order == LeafOrder(q)
        n == CHOOSE i \in 1..Len(order) :
                /\ order[i] \in OccurrencesOf(q, v)
                /\ \A j \in 1..(i - 1) : order[j] \notin OccurrencesOf(q, v)
    IN  order[n]

\* the call had returnMappings set, skipVarMapping not, and returned the map
MapReturned ==
    /\ MatchDone
    /\ Truthy(argOpt, "returnMappings")
    /\ ~Truthy(argOpt, "skipVarMapping")
    /\ result.type = "object"

(***************************************************************************)
(* C27: with returnMappings set and skipVarMapping not, the keys of the    *)
(* map returned are exactly the variable names of the pattern, at any      *)
(* depth; the value of each is the term of the candidate at the path of    *)
(* the first occurrence of the variable in the order of the traversal; and *)
(* the pattern with every variable replaced by its value is structurally   *)
(* equal to the candidate.                                                 *)
(***************************************************************************)
C27_ReturnedMap ==
    MapReturned =>
        /\ DOMAIN result.map = VarNamesOf(argPattern)
        /\ \A v \in VarNamesOf(argPattern) :
              result.map[v] = TermAt(argQuad, FirstOccurrence(argPattern, v))
        /\ equals(Substitute(argPattern, result.map), argQuad)

\* a map with two names was returned: one of a variable that occurs first
\* inside a quoted quad and again at the top level, one bound to a quoted
\* quad
C27_Witness ==
    /\ MapReturned
    /\ Cardinality(DOMAIN result.map) = 2
    /\ \E v \in DOMAIN result.map :
          /\ Len(FirstOccurrence(argPattern, v)) = 2
          /\ Cardinality(OccurrencesOf(argPattern, v)) > 1
    /\ \E v \in DOMAIN result.map : result.map[v].termType = "Quad"


\* every variable name of quad q occurs once in it, all depths taken
\* together
SingleOccurrences(q) == \A v \in VarNamesOf(q) : Cardinality(OccurrencesOf(q, v)) = 1

C28_WitnessRefused ==
    /\ MatchDone
    /\ DefaultOptions(argOpt)
    /\ SingleOccurrences(argPattern)
    /\ VarNamesOf(argPattern) # {}
    /\ AgreeOutsideVariables(WithTerm(argPattern, "graph", argQuad.graph), argQuad)
    /\ ~ReportsMatch
    /\ ~matchPatternComplete(argQuad, argPattern)


\* opt o with skipVarMapping given as b
WithSkipVarMapping(o, b) ==
    [k \in DOMAIN o \cup {"skipVarMapping"} |-> IF k = "skipVarMapping" THEN b ELSE o[k]]

\* what the call of the state returns when skipVarMapping is given as b:
\* a match or none
MatchesWithSkip(b) ==
    matchPatternMappings(argQuad, argPattern, WithSkipVarMapping(argOpt, b)).bool

(***************************************************************************)
(* C29: skipVarMapping only widens.  A quad and pattern that match without *)
(* skipVarMapping match with it, whatever returnMappings is; the converse  *)
(* does not hold in general.                                               *)
(***************************************************************************)
C29_SkipOnlyWidens ==
    MatchDone =>
        /\ (~Truthy(argOpt, "skipVarMapping") /\ ReportsMatch) => MatchesWithSkip(TRUE)
        /\ (Truthy(argOpt, "skipVarMapping") /\ ~ReportsMatch) => ~MatchesWithSkip(FALSE)

\* the converse fails: a match with skipVarMapping of a pattern and a quad
\* that do not match without it
C29_Witness ==
    /\ MatchDone
    /\ Truthy(argOpt, "skipVarMapping")
    /\ ReportsMatch
    /\ ~MatchesWithSkip(FALSE)

\* a match without skipVarMapping in which a Variable of the pattern faces
\* a Variable of the candidate, and that is a match with it as well
C29_WitnessKept ==
    /\ MatchDone
    /\ ~Truthy(argOpt, "skipVarMapping")
    /\ ReportsMatch
    /\ \E path \in VarPaths(argPattern) : TermAt(argQuad, path).termType = "Variable"
    /\ MatchesWithSkip(TRUE)


\* getValueNestedPath finds a term that is no Quad at path from q, and a
\* Quad at every proper prefix of path
LeadsToLeaf(q, path) ==
    /\ getValueNestedPath(q, path).type = "term"
    /\ getValueNestedPath(q, path).term.termType # "Quad"
    /\ \A n \in 0..(Len(path) - 1) :
          /\ getValueNestedPath(q, SubSeq(path, 1, n)).type = "term"
          /\ getValueNestedPath(q, SubSeq(path, 1, n)).term.termType = "Quad"

(***************************************************************************)
(* C30: for every leaf and path that forEachTermsNested(Q) reports, and    *)
(* for every path that filterQuadTermNamesNested returns,                  *)
(* getValueNestedPath(Q, path) returns that leaf without an error; no two  *)
(* leaves share a path; and every proper prefix of a path reported leads   *)
(* to a Quad.                                                              *)
(***************************************************************************)
C30_PathsLeadBack ==
    /\ Done("forEachTermsNested") =>
          /\ \A i \in 1..Len(calls) :
                /\ getValueNestedPath(argQuad, calls[i].keys) = ReturnTerm(calls[i].value)
                /\ LeadsToLeaf(argQuad, calls[i].keys)
          /\ \A i, j \in 1..Len(calls) : i # j => calls[i].keys # calls[j].keys
    /\ Done("filterQuadTermNamesNested") =>
          /\ \A i \in 1..Len(result.value) :
                /\ LeadsToLeaf(argQuad, result.value[i])
                /\ CallFilter(argCb, getValueNestedPath(argQuad, result.value[i]).term,
                              result.value[i])
          /\ \A i, j \in 1..Len(result.value) : i # j => result.value[i] # result.value[j]

\* forEachTermsNested reported leaves at the nesting depth of the model and
\* at the top level, at paths that are not symmetric
C30_Witness ==
    /\ Done("forEachTermsNested")
    /\ \E i, j \in 1..Len(calls) :
          /\ Len(calls[i].keys) = MaxNest + 1
          /\ calls[i].keys[1] # calls[i].keys[Len(calls[i].keys)]
          /\ Len(calls[j].keys) = 1

\* filterQuadTermNamesNested returned paths of different lengths
C30_WitnessFiltered ==
    /\ Done("filterQuadTermNamesNested")
    /\ \E i, j \in 1..Len(result.value) :
          Len(result.value[i]) = 1 /\ Len(result.value[j]) = MaxNest + 1

=============================================================================
